---- MODULE Spec2Model ----
(***************************************************************************)
(* Payment-to-order reconciliation of the storefront: the Stripe webhook   *)
(* route (src/app/api/webhooks/stripe/route.ts) turning a                  *)
(* checkout.session.completed event into an Order document and a stock     *)
(* decrement in the content store.                                         *)
(*                                                                         *)
(* Strings that the code splits, joins or parses are sequences of          *)
(* one-character strings.  Money is kept in hundredths of a pound: the     *)
(* fields the code divides by 100 (priceAtPurchase, total) hold the        *)
(* numerator of that fraction, so that equalities are exact.  A catalog    *)
(* price (pounds in the code) is held in thousandths of a pound.           *)
(*                                                                         *)
(* createCheckoutSession (src/lib/actions/checkout.ts) and                 *)
(* getOrCreateStripeCustomer (src/lib/actions/customer.ts) are modelled    *)
(* one awaited call per action.                                            *)
(***************************************************************************)
EXTENDS Integers, Sequences, FiniteSets, TLC

\* ---------------------------------------------------------------- bounds
MaxDeliveries == 2
MaxTicks == 1

Deliveries == 1..MaxDeliveries

\* ------------------------------------------------------- string helpers
Comma == ","
DigitChars == <<"0", "1", "2", "3", "4", "5", "6", "7", "8", "9">>
NaN == "NaN"

RECURSIVE SeqSum(_)
SeqSum(s) == IF s = <<>> THEN 0 ELSE Head(s) + SeqSum(Tail(s))

IsDigit(c) == \E i \in 1..10 : DigitChars[i] = c
DigitValue(c) == (CHOOSE i \in 1..10 : DigitChars[i] = c) - 1

\* Array.prototype.join(","): the elements separated by commas
RECURSIVE JoinComma(_)
JoinComma(parts) ==
    IF parts = <<>> THEN <<>>
    ELSE IF Len(parts) = 1 THEN parts[1]
    ELSE parts[1] \o <<Comma>> \o JoinComma(Tail(parts))

\* String.prototype.split(","): always at least one (possibly empty) piece
RECURSIVE SplitFrom(_, _, _)
SplitFrom(str, i, cur) ==
    IF i > Len(str) THEN <<cur>>
    ELSE IF str[i] = Comma THEN <<cur>> \o SplitFrom(str, i + 1, <<>>)
    ELSE SplitFrom(str, i + 1, Append(cur, str[i]))

SplitComma(str) == SplitFrom(str, 1, <<>>)

\* Number.prototype.toString() of an integer
RECURSIVE NatToString(_)
NatToString(n) ==
    IF n < 10 THEN <<DigitChars[n + 1]>>
    ELSE NatToString(n \div 10) \o <<DigitChars[(n % 10) + 1]>>

NumberToString(n) == IF n < 0 THEN <<"-">> \o NatToString(0 - n) ELSE NatToString(n)

RECURSIVE DigitsValue(_, _)
DigitsValue(str, acc) ==
    IF str = <<>> THEN acc
    ELSE DigitsValue(Tail(str), acc * 10 + DigitValue(Head(str)))

AllDigits(str) == str # <<>> /\ \A i \in 1..Len(str) : IsDigit(str[i])

\* Number(str): "" is 0, a decimal integer is its value, anything else NaN
ToNumber(str) ==
    IF str = <<>> THEN 0
    ELSE IF AllDigits(str) THEN DigitsValue(str, 0)
    ELSE IF Head(str) = "-" /\ AllDigits(Tail(str)) THEN 0 - DigitsValue(Tail(str), 0)
    ELSE NaN

MapSeq(s, Op(_)) == [i \in 1..Len(s) |-> Op(s[i])]

\* the digits of Number.prototype.toString(36), and their upper-case forms
Base36Chars ==
    <<"0", "1", "2", "3", "4", "5", "6", "7", "8", "9", "a", "b", "c", "d", "e", "f",
      "g", "h", "i", "j", "k", "l", "m", "n", "o", "p", "q", "r", "s", "t", "u", "v",
      "w", "x", "y", "z">>
UpperChars ==
    <<"0", "1", "2", "3", "4", "5", "6", "7", "8", "9", "A", "B", "C", "D", "E", "F",
      "G", "H", "I", "J", "K", "L", "M", "N", "O", "P", "Q", "R", "S", "T", "U", "V",
      "W", "X", "Y", "Z">>

\* Number.prototype.toString(36) of a non-negative integer
RECURSIVE ToString36(_)
ToString36(n) ==
    IF n < 36 THEN <<Base36Chars[n + 1]>>
    ELSE ToString36(n \div 36) \o <<Base36Chars[(n % 36) + 1]>>

\* String.prototype.toUpperCase()
UpperChar(c) ==
    IF \E i \in 1..36 : Base36Chars[i] = c
    THEN UpperChars[CHOOSE i \in 1..36 : Base36Chars[i] = c]
    ELSE c
ToUpperCase(str) == [i \in 1..Len(str) |-> UpperChar(str[i])]

\* String.prototype.substring(from, to), 0-based, to excluded
Substring(str, from, to) ==
    SubSeq(str, from + 1, IF to < Len(str) THEN to ELSE Len(str))

\* ------------------------------------------------------------- catalog
P1 == <<"p", "1">>
P2 == <<"p", "2">>
P3 == <<"p", "3">>
P4 == <<"p", "4">>
Products == {P1, P2, P3, P4}

\* stock of each product document before any webhook delivery
InitStock == (P1 :> 5) @@ (P2 :> 4) @@ (P3 :> 12) @@ (P4 :> 0)

\* name and price of each product document, the price in thousandths of a pound
ProductName == (P1 :> "Chair") @@ (P2 :> "Lamp") @@ (P3 :> "Hook") @@ (P4 :> "Sofa")
ProductPrice == (P1 :> 10000) @@ (P2 :> 2500) @@ (P3 :> 1995) @@ (P4 :> 50000)

\* the prices (in thousandths of a pound, up to 1.3 pounds) with third
\* decimal 5 whose double-precision product price * 100 falls just below the
\* half: 1.005 * 100 is 100.49999999999999
ProductBelowHalf == {145, 285, 565, 575, 1005, 1015, 1025, 1035, 1255, 1265, 1275}

\* variant: the product is truncated (Math.floor)
MathFloorTimes100(price) == price \div 10

\* Math.round(price * 100): pence; Math.round takes halves up, applied to
\* the double-precision product
MathRoundTimes100(price) ==
    IF price \in ProductBelowHalf THEN (price - 5) \div 10 ELSE (price + 5) \div 10

\* ------------------------------------------- checkout session (provider)
MetadataKeys == {"clerkUserId", "userEmail", "sanityCustomerId", "productIds", "quantities"}

\* line_items sent to the provider: name, unit_amount in pence and quantity
LineItemsOf(validatedItems) ==
    [i \in 1..Len(validatedItems) |->
        [productId   |-> validatedItems[i].productId,
         name        |-> validatedItems[i].name,
         unit_amount |-> MathRoundTimes100(validatedItems[i].price),
         quantity    |-> validatedItems[i].quantity]]

ProductIdOf(item) == item.productId
QuantityStringOf(item) == NumberToString(item.quantity)

\* metadata written at session creation: ids and quantities comma-joined
MetadataOf(userId, userEmail, sanityCustomerId, validatedItems) ==
    [clerkUserId      |-> userId,
     userEmail        |-> userEmail,
     sanityCustomerId |-> sanityCustomerId,
     productIds       |-> JoinComma(MapSeq(validatedItems, ProductIdOf)),
     quantities       |-> JoinComma(MapSeq(validatedItems, QuantityStringOf))]

LineAmount(li) == li.unit_amount * li.quantity

\* the provider's session object: amount_total is the sum of the lines
StripeSession(id, paymentIntent, validatedItems, metadata) ==
    [id             |-> id,
     payment_intent |-> paymentIntent,
     metadata       |-> metadata,
     line_items     |-> LineItemsOf(validatedItems),
     amount_total   |-> SeqSum(MapSeq(LineItemsOf(validatedItems), LineAmount)),
     customer_email |-> "buyer@details"]

\* the page size of the provider's list calls when no limit is passed
ListLimit == 10

\* stripe.checkout.sessions.listLineItems: the first page, one entry per
\* line, whose amount_total is the total of that line (unit amount times
\* quantity)
ListLineItemsData(session) ==
    [i \in 1..(IF Len(session.line_items) < ListLimit
               THEN Len(session.line_items) ELSE ListLimit) |->
        [amount_total |-> LineAmount(session.line_items[i]),
         quantity     |-> session.line_items[i].quantity]]

Without(md, key) == [k \in (DOMAIN md) \ {key} |-> md[k]]

\* a validated line: the product snapshot's id, name and price, and the quantity
Line(p, quantity) ==
    [productId |-> p, name |-> ProductName[p], price |-> ProductPrice[p],
     quantity |-> quantity]

CartA == <<Line(P1, 2)>>
CartB == <<Line(P1, 1), Line(P2, 3)>>
CartC == <<Line(P2, 1)>>

SessionA == StripeSession("cs_A", "pi_A", CartA, MetadataOf("user_1", "a@x", "cust_1", CartA))
SessionB == StripeSession("cs_B", "pi_B", CartB, MetadataOf("user_2", "b@x", "cust_2", CartB))

\* a session whose metadata lacks one key
MissingSessionId ==
    [clerkUserId |-> "cs_C1", userEmail |-> "cs_C2", sanityCustomerId |-> "cs_C3",
     productIds |-> "cs_C4", quantities |-> "cs_C5"]
MissingPaymentId ==
    [clerkUserId |-> "pi_C1", userEmail |-> "pi_C2", sanityCustomerId |-> "pi_C3",
     productIds |-> "pi_C4", quantities |-> "pi_C5"]

SessionMissing(key) ==
    StripeSession(MissingSessionId[key], MissingPaymentId[key], CartC,
                  Without(MetadataOf("user_3", "c@x", "cust_3", CartC), key))

WellFormedSessions == {SessionA, SessionB}
SessionPool == WellFormedSessions \cup {SessionMissing(k) : k \in MetadataKeys}

PaymentIds == {s.payment_intent : s \in SessionPool}

\* ------------------------------------------------------ webhook request
CheckoutCompleted == "checkout.session.completed"
OtherEventType == "payment_intent.succeeded"

Events ==
    {[type |-> CheckoutCompleted, object |-> s] : s \in SessionPool}
        \cup {[type |-> OtherEventType, object |-> SessionA]}

webhookSecret == "whsec_live"
ForeignSecret == "whsec_other"

\* the provider's signature of a body under a secret
Sign(body, secret) == [signed |-> body, secret |-> secret]

\* the stripe-signature header: <<>> when the header is missing
GenuineRequests == {[body |-> e, header |-> <<Sign(e, webhookSecret)>>] : e \in Events}

AlteredBody ==
    [type |-> CheckoutCompleted,
     object |-> StripeSession("cs_A", "pi_A", CartB, MetadataOf("user_1", "a@x", "cust_1", CartB))]

ForgedRequests ==
    {[body |-> [type |-> CheckoutCompleted, object |-> SessionA], header |-> <<>>],
     [body |-> AlteredBody,
      header |-> <<Sign([type |-> CheckoutCompleted, object |-> SessionA], webhookSecret)>>],
     [body |-> [type |-> CheckoutCompleted, object |-> SessionB],
      header |-> <<Sign([type |-> CheckoutCompleted, object |-> SessionB], ForeignSecret)>>]}

Requests == GenuineRequests \cup ForgedRequests

NoRequest == [body |-> [type |-> "none", object |-> SessionA], header |-> <<>>]

\* variant: only the secret of the signature is compared, not the signed body
constructEventIgnoresBody(body, signature, secret) == signature.secret = secret

\* stripe.webhooks.constructEvent: TRUE when the signature is the one the
\* provider computes for this body under this secret (otherwise it throws)
constructEventAccepts(body, signature, secret) == signature = Sign(body, secret)

\* ------------------------------------------------------- buyers, carts
MaxCheckouts == 2

Checkouts == 1..MaxCheckouts

\* what auth() and currentUser() return for the caller; no session: userId ""
U1 == [userId |-> "user_1", email |-> "a@x", name |-> "Ann"]
U2 == [userId |-> "user_2", email |-> "b@x", name |-> "Bob"]
Anonymous == [userId |-> "", email |-> "", name |-> ""]
Buyers == {U1, U2}

\* a customer document without provider link exists for the second buyer
InitCustomers ==
    <<[_id |-> "customer_0", email |-> "b@x", name |-> "Bob", clerkUserId |-> "",
       stripeCustomerId |-> ""]>>

\* the result createCheckoutSession returns; thrown: an exception left the call
NoResult == [success |-> FALSE, url |-> <<>>, error |-> <<>>, thrown |-> FALSE]

IdleCheckout ==
    [pc |-> "idle", user |-> Anonymous, items |-> <<>>, products |-> <<>>,
     validatedItems |-> <<>>, existingCustomer |-> <<>>, stripeCustomerId |-> "",
     sanityCustomerId |-> "", result |-> NoResult, failed |-> "", calls |-> <<>>]

\* no page has called yet
NoView == [call |-> "none"]

\* ---------------------------------------------------------------- state
VARIABLES
    orders,      \* the order documents of the content store, in creation order
    stock,       \* stock of each product document
    pc,          \* where each delivery's request handler stands
    req,         \* the request each delivery carries
    lineItems,   \* the provider line items a handler fetched
    outcome,     \* how each handler ended
    status,      \* HTTP status answered (0: none yet)
    calls,       \* store and provider calls each handler has made
    orderNumber, \* the orderNumber of each order document, by position in orders
    failedCall,  \* the call that threw in each handler ("" when none)
    customers,        \* the customer documents of the content store
    stripeCustomers,  \* the provider's customer objects
    sessions,         \* the provider's checkout sessions made by createCheckoutSession
    ck,               \* the state of each createCheckoutSession call
    price,            \* the catalog price of each product document
    view              \* the last call a storefront page made, with its result

hookvars == <<pc, req, lineItems, outcome, status, calls, failedCall, orderNumber>>
shopvars == <<customers, stripeCustomers, sessions, ck, view>>
vars == <<orders, stock, pc, req, lineItems, outcome, status, calls, failedCall, orderNumber,
          customers, stripeCustomers, sessions, ck, price, view>>

Init ==
    /\ orders = <<>>
    /\ orderNumber = <<>>
    /\ stock = InitStock
    /\ pc = [d \in Deliveries |-> "idle"]
    /\ req = [d \in Deliveries |-> NoRequest]
    /\ lineItems = [d \in Deliveries |-> <<>>]
    /\ outcome = [d \in Deliveries |-> "none"]
    /\ status = [d \in Deliveries |-> 0]
    /\ calls = [d \in Deliveries |-> <<>>]
    /\ failedCall = [d \in Deliveries |-> ""]
    /\ customers = InitCustomers
    /\ stripeCustomers = <<>>
    /\ sessions = <<>>
    /\ ck = [c \in Checkouts |-> IdleCheckout]
    /\ price = ProductPrice
    /\ view = NoView

\* ------------------------------------------------------ response status
\* a route handler whose promise rejects is answered with a server error
UnhandledErrorStatus == 500
\* variant: a handled event is answered like an unhandled error
ReceivedStatusAsError == UnhandledErrorStatus

ReceivedStatus == 200

\* variants: the early returns replaced by a thrown error
MissingSignatureThrows == UnhandledErrorStatus
SignatureErrorThrows == UnhandledErrorStatus

MissingSignatureStatus == 400
SignatureErrorStatus == 400

\* variant: the catch block logs and returns
CatchSwallows == FALSE

\* the catch block of handleCheckoutCompleted rethrows
CatchRethrows == TRUE

ErrorStatus == IF CatchRethrows THEN UnhandledErrorStatus ELSE ReceivedStatus

Finish(d, how, code) ==
    /\ pc' = [pc EXCEPT ![d] = "done"]
    /\ outcome' = [outcome EXCEPT ![d] = how]
    /\ status' = [status EXCEPT ![d] = code]

Throw(d, call) ==
    /\ Finish(d, "error", ErrorStatus)
    /\ failedCall' = [failedCall EXCEPT ![d] = call]

\* ---------------------------------------------------- handler operators
Session(d) == req[d].body.object
stripePaymentId(d) == Session(d).payment_intent

\* variant: the query filters on the document id instead of stripePaymentId
OrderByDocumentId(docs, paymentId) ==
    {i \in 1..Len(docs) : <<"order", i>> = paymentId}

\* ORDER_BY_STRIPE_PAYMENT_ID_QUERY: the order documents with this payment id
OrderByStripePaymentId(docs, paymentId) ==
    {i \in 1..Len(docs) : docs[i].stripePaymentId = paymentId}

Has(md, key) == key \in DOMAIN md
Undefined == "undefined"
Field(md, key) == IF Has(md, key) THEN md[key] ELSE Undefined

\* variant: the handler is called for every event type
TriggersAlways(eventType) == eventType = eventType

\* the switch of POST: the event type that is handed to handleCheckoutCompleted
TriggersMaterialization(eventType) == eventType = CheckoutCompleted

\* variant: the fail-safe forgets clerkUserId
MetadataMissingIdsOnly(md) ==
    \/ ~("productIds" \in DOMAIN md) \/ md.productIds = <<>>
    \/ ~("quantities" \in DOMAIN md) \/ md.quantities = <<>>

\* the fail-safe of the handler: !clerkUserId || !productIds || !quantities
MetadataMissing(md) ==
    \/ ~Has(md, "clerkUserId") \/ md.clerkUserId = ""
    \/ ~Has(md, "productIds") \/ md.productIds = <<>>
    \/ ~Has(md, "quantities") \/ md.quantities = <<>>

productIdsOf(md) == SplitComma(md.productIds)
\* variant: every character of the string is taken for one quantity
quantitiesOfPerCharacter(md) ==
    LET digits == SelectSeq(md.quantities, IsDigit)
    IN MapSeq([i \in 1..Len(digits) |-> <<digits[i]>>], ToNumber)

quantitiesOf(md) == MapSeq(SplitComma(md.quantities), ToNumber)

At(s, i) == IF i \in 1..Len(s) THEN s[i] ELSE Undefined

\* variant: a line without provider amount takes the last amount listed
PriceAtPurchaseRepeatingLast(data, i) ==
    IF i \in 1..Len(data) /\ data[i].amount_total # 0 THEN data[i].amount_total
    ELSE IF data # <<>> THEN data[Len(data)].amount_total ELSE 0

\* priceAtPurchase: the line's amount_total when present and non-zero, else 0
PriceAtPurchase(data, i) ==
    IF i \in 1..Len(data) /\ data[i].amount_total # 0 THEN data[i].amount_total ELSE 0

orderItems(productIds, quantities, data) ==
    [i \in 1..Len(productIds) |->
        [_key            |-> i - 1,
         product         |-> productIds[i],
         quantity        |-> At(quantities, i),
         priceAtPurchase |-> PriceAtPurchase(data, i)]]

OrderEmail(session) ==
    IF Has(session.metadata, "userEmail") THEN session.metadata.userEmail
    ELSE session.customer_email

OrderCustomer(md) ==
    IF Has(md, "sanityCustomerId") /\ md.sanityCustomerId # ""
    THEN <<md.sanityCustomerId>> ELSE <<>>

OrderDocument(session, data) ==
    [stripePaymentId |-> session.payment_intent,
     clerkUserId     |-> Field(session.metadata, "clerkUserId"),
     email           |-> OrderEmail(session),
     customer        |-> OrderCustomer(session.metadata),
     items           |-> orderItems(productIdsOf(session.metadata),
                                    quantitiesOf(session.metadata), data),
     total           |-> session.amount_total,
     status          |-> "paid"]

\* variant: every patch lowers the stock by one unit
StockPatchesByUnit(productIds, quantities) ==
    [i \in 1..Len(productIds) |-> [id |-> productIds[i], dec |-> 1]]

\* the patches of the stock transaction, one per product id of the metadata
StockPatches(productIds, quantities) ==
    [i \in 1..Len(productIds) |-> [id |-> productIds[i], dec |-> At(quantities, i)]]

\* a value that is a number: neither NaN nor undefined
IsNumber(x) == ToString(x) \notin {ToString(NaN), ToString(Undefined)}

PatchApplies(st, patch) == patch.id \in DOMAIN st /\ IsNumber(patch.dec)

RECURSIVE ApplyPatches(_, _)
ApplyPatches(st, patches) ==
    IF patches = <<>> THEN st
    ELSE ApplyPatches([st EXCEPT ![Head(patches).id] = @ - Head(patches).dec],
                      Tail(patches))

\* variant: the patches are committed one by one, those before the refused
\* one stay applied
CommitPatchByPatch(st, patches, failAt) ==
    IF failAt = 0 THEN ApplyPatches(st, patches)
    ELSE ApplyPatches(st, SubSeq(patches, 1, failAt - 1))

\* commit of one transaction in which patch number failAt is refused
\* (0: none is): all patches apply or none does
CommitTransaction(st, patches, failAt) ==
    IF failAt = 0 THEN ApplyPatches(st, patches) ELSE st

\* -------------------------------------------------------------- actions
\* the provider (or anyone else) sends a request to the webhook route
Deliver(d, r) ==
    /\ pc[d] = "idle"
    /\ \A e \in 1..(d - 1) : pc[e] # "idle"   \* delivery slots are used in order
    /\ pc' = [pc EXCEPT ![d] = "received"]
    /\ req' = [req EXCEPT ![d] = r]
    /\ UNCHANGED <<orders, stock, lineItems, outcome, status, calls, failedCall, orderNumber, price, shopvars>>

\* POST: header check, signature verification and the switch on event.type
POST(d) ==
    /\ pc[d] = "received"
    /\ IF req[d].header = <<>>
       THEN Finish(d, "missing_signature", MissingSignatureStatus)
       ELSE IF ~constructEventAccepts(req[d].body, req[d].header[1], webhookSecret)
       THEN Finish(d, "bad_signature", SignatureErrorStatus)
       ELSE IF TriggersMaterialization(req[d].body.type)
       THEN /\ pc' = [pc EXCEPT ![d] = "idempotency_check"]
            /\ UNCHANGED <<outcome, status>>
       ELSE Finish(d, "ignored", ReceivedStatus)
    /\ UNCHANGED <<orders, stock, req, lineItems, calls, failedCall, orderNumber, price, shopvars>>

\* variant: a delivery that finds the order goes on to the stock transaction
FetchExistingOrderResuming(d, ok) ==
    /\ pc[d] = "idempotency_check"
    /\ calls' = [calls EXCEPT ![d] = Append(@, "fetchOrder")]
    /\ IF ~ok
       THEN Throw(d, "fetchOrder")
       ELSE /\ UNCHANGED failedCall
            /\ IF OrderByStripePaymentId(orders, stripePaymentId(d)) # {}
               THEN /\ pc' = [pc EXCEPT ![d] = "commit_stock"]
                    /\ UNCHANGED <<outcome, status>>
               ELSE IF MetadataMissing(Session(d).metadata)
               THEN Finish(d, "malformed", ReceivedStatus)
               ELSE /\ pc' = [pc EXCEPT ![d] = "list_line_items"]
                    /\ UNCHANGED <<outcome, status>>
    /\ UNCHANGED <<orders, stock, req, lineItems, orderNumber, price, shopvars>>

\* handleCheckoutCompleted: the idempotency read, then the metadata check
FetchExistingOrder(d, ok) ==
    /\ pc[d] = "idempotency_check"
    /\ calls' = [calls EXCEPT ![d] = Append(@, "fetchOrder")]
    /\ IF ~ok
       THEN Throw(d, "fetchOrder")
       ELSE /\ UNCHANGED failedCall
            /\ IF OrderByStripePaymentId(orders, stripePaymentId(d)) # {}
               THEN Finish(d, "deduplicated", ReceivedStatus)
               ELSE IF MetadataMissing(Session(d).metadata)
               THEN Finish(d, "malformed", ReceivedStatus)
               ELSE /\ pc' = [pc EXCEPT ![d] = "list_line_items"]
                    /\ UNCHANGED <<outcome, status>>
    /\ UNCHANGED <<orders, stock, req, lineItems, orderNumber, price, shopvars>>

\* variant: the stock transaction comes straight after the line-item fetch
ListLineItemsThenCommit(d, ok) ==
    /\ pc[d] = "list_line_items"
    /\ calls' = [calls EXCEPT ![d] = Append(@, "listLineItems")]
    /\ IF ~ok
       THEN Throw(d, "listLineItems") /\ UNCHANGED lineItems
       ELSE /\ lineItems' = [lineItems EXCEPT ![d] = ListLineItemsData(Session(d))]
            /\ pc' = [pc EXCEPT ![d] = "commit_stock"]
            /\ UNCHANGED <<outcome, status, failedCall>>
    /\ UNCHANGED <<orders, stock, req, orderNumber, price, shopvars>>

\* handleCheckoutCompleted: stripe.checkout.sessions.listLineItems
ListLineItems(d, ok) ==
    /\ pc[d] = "list_line_items"
    /\ calls' = [calls EXCEPT ![d] = Append(@, "listLineItems")]
    /\ IF ~ok
       THEN Throw(d, "listLineItems") /\ UNCHANGED lineItems
       ELSE /\ lineItems' = [lineItems EXCEPT ![d] = ListLineItemsData(Session(d))]
            /\ pc' = [pc EXCEPT ![d] = "create_order"]
            /\ UNCHANGED <<outcome, status, failedCall>>
    /\ UNCHANGED <<orders, stock, req, orderNumber, price, shopvars>>

\* Date.now(): the milliseconds of the clock, counted from the first one
Ticks == 1..MaxTicks

\* Math.random().toString(36): "0." and the base-36 digits of the fraction
Randoms ==
    {<<"0", ".", "a", "1", "b", "2", "c", "7">>,
     <<"0", ".", "a", "1", "b", "2", "k", "3">>,
     <<"0", ".", "z", "9">>}

\* `ORD-${Date.now().toString(36).toUpperCase()}-${Math.random()
\*     .toString(36).substring(2, 6).toUpperCase()}`
orderNumberOf(now, random) ==
    <<"ORD-">> \o ToUpperCase(ToString36(now)) \o <<"-">>
        \o ToUpperCase(Substring(random, 2, 6))

\* variant: the order document is written although the create call fails
CreateOrderWritingOnFailure(d, ok) ==
    /\ pc[d] = "create_order"
    /\ calls' = [calls EXCEPT ![d] = Append(@, "createOrder")]
    /\ orders' = Append(orders, OrderDocument(Session(d), lineItems[d]))
    /\ \E now \in Ticks, random \in Randoms :
          orderNumber' = Append(orderNumber, orderNumberOf(now, random))
    /\ IF ~ok
       THEN Throw(d, "createOrder")
       ELSE /\ pc' = [pc EXCEPT ![d] = "commit_stock"]
            /\ UNCHANGED <<outcome, status, failedCall>>
    /\ UNCHANGED <<stock, req, lineItems, price, shopvars>>

\* handleCheckoutCompleted: writeClient.create of the order document
CreateOrder(d, ok) ==
    /\ pc[d] = "create_order"
    /\ calls' = [calls EXCEPT ![d] = Append(@, "createOrder")]
    /\ IF ~ok
       THEN Throw(d, "createOrder") /\ UNCHANGED <<orders, orderNumber>>
       ELSE /\ orders' = Append(orders, OrderDocument(Session(d), lineItems[d]))
            /\ \E now \in Ticks, random \in Randoms :
                  orderNumber' = Append(orderNumber, orderNumberOf(now, random))
            /\ pc' = [pc EXCEPT ![d] = "commit_stock"]
            /\ UNCHANGED <<outcome, status, failedCall>>
    /\ UNCHANGED <<stock, req, lineItems, price, shopvars>>

\* handleCheckoutCompleted: commit of the stock transaction
CommitStock(d, failAt) ==
    /\ pc[d] = "commit_stock"
    /\ LET patches == StockPatches(productIdsOf(Session(d).metadata),
                                   quantitiesOf(Session(d).metadata))
       IN /\ failAt \in 0..Len(patches)
          /\ failAt = 0 => \A i \in 1..Len(patches) : PatchApplies(stock, patches[i])
          /\ stock' = CommitTransaction(stock, patches, failAt)
    /\ calls' = [calls EXCEPT ![d] = Append(@, "commitStock")]
    /\ IF failAt # 0
       THEN Throw(d, "commitStock")
       ELSE Finish(d, "stock_adjusted", ReceivedStatus) /\ UNCHANGED failedCall
    /\ UNCHANGED <<orders, req, lineItems, orderNumber, price, shopvars>>

\* number of patches in the stock transaction of a handler about to commit
PatchCount(d) ==
    IF pc[d] = "commit_stock" THEN Len(productIdsOf(Session(d).metadata)) ELSE 0

Next ==
    \/ \E d \in Deliveries, r \in Requests : Deliver(d, r)
    \/ \E d \in Deliveries : POST(d)
    \/ \E d \in Deliveries, ok \in BOOLEAN : FetchExistingOrder(d, ok)
    \/ \E d \in Deliveries, ok \in BOOLEAN : ListLineItems(d, ok)
    \/ \E d \in Deliveries, ok \in BOOLEAN : CreateOrder(d, ok)
    \/ \E d \in Deliveries : \E failAt \in 0..PatchCount(d) : CommitStock(d, failAt)

Spec == Init /\ [][Next]_vars

\* ------------------------------------- deliveries one after another, no call fails
Quiet == \A d \in Deliveries : pc[d] \in {"idle", "done"}

\* the provider redelivers only after the previous delivery was answered
DeliverInTurn(d, r) == Quiet /\ Deliver(d, r)

NextSeq ==
    \/ \E d \in Deliveries, r \in GenuineRequests : DeliverInTurn(d, r)
    \/ \E d \in Deliveries : POST(d)
    \/ \E d \in Deliveries : FetchExistingOrder(d, TRUE)
    \/ \E d \in Deliveries : ListLineItems(d, TRUE)
    \/ \E d \in Deliveries : CreateOrder(d, TRUE)
    \/ \E d \in Deliveries : CommitStock(d, 0)

SpecSeq == Init /\ [][NextSeq]_vars

\* deliveries one after another, any call of a handler may fail: the provider
\* redelivers an event after the previous delivery was answered
NextRetry ==
    \/ \E d \in Deliveries, r \in GenuineRequests : DeliverInTurn(d, r)
    \/ \E d \in Deliveries : POST(d)
    \/ \E d \in Deliveries, ok \in BOOLEAN : FetchExistingOrder(d, ok)
    \/ \E d \in Deliveries, ok \in BOOLEAN : ListLineItems(d, ok)
    \/ \E d \in Deliveries, ok \in BOOLEAN : CreateOrder(d, ok)
    \/ \E d \in Deliveries : \E failAt \in 0..PatchCount(d) : CommitStock(d, failAt)

SpecRetry == Init /\ [][NextRetry]_vars

\* sessions whose metadata did not come from createCheckoutSession: the
\* lists differ in length, or a quantity is no positive integer
WithLists(session, productIds, quantities) ==
    [session EXCEPT !.metadata = [@ EXCEPT !.productIds = productIds,
                                           !.quantities = quantities]]

SessionD(n) ==
    StripeSession(<<"cs_D", n>>, <<"pi_D", n>>, CartA,
                  MetadataOf("user_1", "a@x", "cust_1", CartA))

OddSessions ==
    {WithLists(SessionD(1), JoinComma(<<P1, P2>>), <<"2">>),
     WithLists(SessionD(2), P1, <<"2", Comma, "1">>),
     WithLists(SessionD(3), P1, <<"x">>),
     WithLists(SessionD(4), P1, <<"0">>),
     WithLists(SessionD(5), P1, <<"-", "1">>),
     WithLists(SessionD(6), P1, <<"2">>)}

OddRequests ==
    {[body |-> [type |-> CheckoutCompleted, object |-> s],
      header |-> <<Sign([type |-> CheckoutCompleted, object |-> s], webhookSecret)>>] :
        s \in OddSessions}

NextOdd ==
    \/ \E d \in Deliveries, r \in OddRequests : DeliverInTurn(d, r)
    \/ \E d \in Deliveries : POST(d)
    \/ \E d \in Deliveries, ok \in BOOLEAN : FetchExistingOrder(d, ok)
    \/ \E d \in Deliveries, ok \in BOOLEAN : ListLineItems(d, ok)
    \/ \E d \in Deliveries, ok \in BOOLEAN : CreateOrder(d, ok)
    \/ \E d \in Deliveries : \E failAt \in 0..PatchCount(d) : CommitStock(d, failAt)

SpecOdd == Init /\ [][NextOdd]_vars

\* session.payment_intent of a session that took no payment
Null == "null"

\* two sessions without payment intent, and one with
UnpaidSessions ==
    {[SessionA EXCEPT !.id = "cs_N1", !.payment_intent = Null],
     [SessionB EXCEPT !.id = "cs_N2", !.payment_intent = Null],
     SessionA}

UnpaidRequests ==
    {[body |-> [type |-> CheckoutCompleted, object |-> s],
      header |-> <<Sign([type |-> CheckoutCompleted, object |-> s], webhookSecret)>>] :
        s \in UnpaidSessions}

NextUnpaid ==
    \/ \E d \in Deliveries, r \in UnpaidRequests : DeliverInTurn(d, r)
    \/ \E d \in Deliveries : POST(d)
    \/ \E d \in Deliveries, ok \in BOOLEAN : FetchExistingOrder(d, ok)
    \/ \E d \in Deliveries, ok \in BOOLEAN : ListLineItems(d, ok)
    \/ \E d \in Deliveries, ok \in BOOLEAN : CreateOrder(d, ok)
    \/ \E d \in Deliveries : \E failAt \in 0..PatchCount(d) : CommitStock(d, failAt)

SpecUnpaid == Init /\ [][NextUnpaid]_vars

TypeOK ==
    /\ \A d \in Deliveries : status[d] \in {0, 200, 400, 500}
    /\ DOMAIN stock = Products

\* ================================================= createCheckoutSession
\* the id of a product document that was deleted or unpublished
PX == <<"p", "x">>

\* PRODUCTS_BY_IDS_QUERY: the product documents whose _id is among ids
ProductsByIds(st, pr, ids) ==
    [p \in {q \in DOMAIN st : \E i \in 1..Len(ids) : ids[i] = q} |->
        [_id |-> p, name |-> ProductName[p], price |-> pr[p], stock |-> st[p]]]

\* variant: a line passes when the quantity is at most one above the stock
ValidationMessageOffByOne(item, products) ==
    IF item.productId \notin DOMAIN products
    THEN <<"Product", item.name, "is no longer available">>
    ELSE IF products[item.productId].stock = 0
    THEN <<products[item.productId].name, "is out of stock">>
    ELSE IF item.quantity > products[item.productId].stock + 1
    THEN <<"Only", ToString(products[item.productId].stock), "of",
           products[item.productId].name, "available">>
    ELSE <<>>

\* the message the validation loop pushes for one cart item (<<>>: none)
ValidationMessage(item, products) ==
    IF item.productId \notin DOMAIN products
    THEN <<"Product", item.name, "is no longer available">>
    ELSE IF products[item.productId].stock = 0
    THEN <<products[item.productId].name, "is out of stock">>
    ELSE IF item.quantity > products[item.productId].stock
    THEN <<"Only", ToString(products[item.productId].stock), "of",
           products[item.productId].name, "available">>
    ELSE <<>>

\* variant: the loop stops at the first failing item
RECURSIVE validationErrorsFirstOnly(_, _)
validationErrorsFirstOnly(items, products) ==
    IF items = <<>> THEN <<>>
    ELSE IF ValidationMessage(Head(items), products) # <<>>
    THEN <<ValidationMessage(Head(items), products)>>
    ELSE validationErrorsFirstOnly(Tail(items), products)

\* validationErrors after the loop: one message per failing item, in cart order
RECURSIVE validationErrors(_, _)
validationErrors(items, products) ==
    IF items = <<>> THEN <<>>
    ELSE (IF ValidationMessage(Head(items), products) # <<>>
          THEN <<ValidationMessage(Head(items), products)>> ELSE <<>>)
         \o validationErrors(Tail(items), products)

\* variant: the validated line keeps the price and name the client sent
RECURSIVE validatedItemsTrustingClient(_, _)
validatedItemsTrustingClient(items, products) ==
    IF items = <<>> THEN <<>>
    ELSE (IF ValidationMessage(Head(items), products) = <<>>
          THEN <<[productId |-> products[Head(items).productId]._id,
                  name      |-> Head(items).name,
                  price     |-> Head(items).price,
                  quantity  |-> Head(items).quantity]>>
          ELSE <<>>)
         \o validatedItemsTrustingClient(Tail(items), products)

\* validatedItems after the loop: the product snapshot and the quantity of
\* every item that passed
RECURSIVE validatedItemsOf(_, _)
validatedItemsOf(items, products) ==
    IF items = <<>> THEN <<>>
    ELSE (IF ValidationMessage(Head(items), products) = <<>>
          THEN <<[productId |-> products[Head(items).productId]._id,
                  name      |-> products[Head(items).productId].name,
                  price     |-> products[Head(items).productId].price,
                  quantity  |-> Head(items).quantity]>>
          ELSE <<>>)
         \o validatedItemsOf(Tail(items), products)

FullStop == ". "

\* validationErrors.join(". ")
RECURSIVE JoinFullStop(_)
JoinFullStop(messages) ==
    IF messages = <<>> THEN <<>>
    ELSE IF Len(messages) = 1 THEN messages[1]
    ELSE messages[1] \o <<FullStop>> \o JoinFullStop(Tail(messages))

\* variant: a caller without session is told the cart is empty
SignInResultAsEmptyCart ==
    [success |-> FALSE, url |-> <<>>, error |-> <<"Your cart is empty">>, thrown |-> FALSE]

SignInResult ==
    [success |-> FALSE, url |-> <<>>, error |-> <<"Please sign in to checkout">>,
     thrown |-> FALSE]
EmptyCartResult ==
    [success |-> FALSE, url |-> <<>>, error |-> <<"Your cart is empty">>, thrown |-> FALSE]
ValidationResult(errors) ==
    [success |-> FALSE, url |-> <<>>, error |-> JoinFullStop(errors), thrown |-> FALSE]
SuccessResult(url) ==
    [success |-> TRUE, url |-> <<url>>, error |-> <<>>, thrown |-> FALSE]

\* variant: the catch block rethrows
CatchResultRethrown ==
    [success |-> FALSE, url |-> <<>>, error |-> <<>>, thrown |-> TRUE]

\* the catch block of createCheckoutSession
CatchResult ==
    [success |-> FALSE, url |-> <<>>,
     error |-> <<"Something went wrong. Please try again.">>, thrown |-> FALSE]

\* =============================================== getOrCreateStripeCustomer
\* CUSTOMER_BY_EMAIL_QUERY: the first customer document with this email
CustomerByEmail(docs, email) ==
    LET found == {i \in 1..Len(docs) : docs[i].email = email}
    IN IF found = {} THEN <<>>
       ELSE <<docs[CHOOSE i \in found : \A j \in found : i <= j]>>

\* variant: the list is filtered on the customer id instead of the email
StripeCustomersListById(list, email) ==
    LET found == {i \in 1..Len(list) : list[i].id = email}
    IN IF found = {} THEN <<>>
       ELSE <<list[CHOOSE i \in found : \A j \in found : i >= j]>>

\* stripe.customers.list({ email, limit: 1 }): the newest customer with this email
StripeCustomersList(list, email) ==
    LET found == {i \in 1..Len(list) : list[i].email = email}
    IN IF found = {} THEN <<>>
       ELSE <<list[CHOOSE i \in found : \A j \in found : i >= j]>>

NewStripeCustomerId(list) == "cus_" \o ToString(Len(list) + 1)
NewSanityCustomerId(docs) == "customer_" \o ToString(Len(docs))
NewSessionId(list) == "cs_" \o ToString(Len(list) + 1)
NewPaymentId(list) == "pi_" \o ToString(Len(list) + 1)

\* writeClient.patch(_id).set({ stripeCustomerId, clerkUserId, name })
PatchCustomer(docs, id, stripeCustomerId, clerkUserId, name) ==
    [i \in 1..Len(docs) |->
        IF docs[i]._id = id
        THEN [docs[i] EXCEPT !.stripeCustomerId = stripeCustomerId,
                             !.clerkUserId = clerkUserId, !.name = name]
        ELSE docs[i]]

\* ------------------------------------------------------ checkout actions
CkGoto(c, to, call) ==
    [ck[c] EXCEPT !.pc = to, !.calls = Append(@, call)]

CkReturn(c, result, call) ==
    [ck[c] EXCEPT !.pc = "done", !.result = result, !.calls = Append(@, call)]

\* a call threw: the catch block of createCheckoutSession makes the result
CkThrow(c, call) ==
    ck' = [ck EXCEPT ![c] = [CkReturn(c, CatchResult, call) EXCEPT !.failed = call]]

\* the storefront calls the server action with the buyer's session and cart
StartCheckout(c, user, items) ==
    /\ ck[c].pc = "idle"
    /\ \A e \in 1..(c - 1) : ck[e].pc # "idle"   \* call slots are used in order
    /\ ck' = [ck EXCEPT ![c] = [@ EXCEPT !.pc = "auth", !.user = user, !.items = items]]
    /\ UNCHANGED <<orders, stock, price, view, hookvars, customers, stripeCustomers, sessions>>

\* steps 1-2: auth(), currentUser(), the sign-in and empty-cart returns
Authenticate(c, ok) ==
    /\ ck[c].pc = "auth"
    /\ IF ~ok THEN CkThrow(c, "auth")
       ELSE IF ck[c].user.userId = ""
       THEN ck' = [ck EXCEPT ![c] = CkReturn(c, SignInResult, "auth")]
       ELSE IF ck[c].items = <<>>
       THEN ck' = [ck EXCEPT ![c] = CkReturn(c, EmptyCartResult, "auth")]
       ELSE ck' = [ck EXCEPT ![c] = CkGoto(c, "fetch_products", "auth")]
    /\ UNCHANGED <<orders, stock, price, view, hookvars, customers, stripeCustomers, sessions>>

\* variant: the customer is resolved before the validation errors are returned
FetchProductsThenCustomer(c, ok) ==
    /\ ck[c].pc = "fetch_products"
    /\ IF ~ok THEN CkThrow(c, "fetchProducts")
       ELSE LET ids == [i \in 1..Len(ck[c].items) |-> ck[c].items[i].productId]
                products == ProductsByIds(stock, price, ids)
            IN ck' = [ck EXCEPT ![c] =
                       [CkGoto(c, "customer_by_email", "fetchProducts")
                           EXCEPT !.products = products,
                                  !.validatedItems = validatedItemsOf(ck[c].items, products)]]
    /\ UNCHANGED <<orders, stock, price, view, hookvars, customers, stripeCustomers, sessions>>

\* steps 3-4: the bulk product read, then the validation loop
FetchProducts(c, ok) ==
    /\ ck[c].pc = "fetch_products"
    /\ IF ~ok THEN CkThrow(c, "fetchProducts")
       ELSE LET ids == [i \in 1..Len(ck[c].items) |-> ck[c].items[i].productId]
                products == ProductsByIds(stock, price, ids)
                errors == validationErrors(ck[c].items, products)
            IN IF errors # <<>>
               THEN ck' = [ck EXCEPT ![c] =
                       [CkReturn(c, ValidationResult(errors), "fetchProducts")
                           EXCEPT !.products = products]]
               ELSE ck' = [ck EXCEPT ![c] =
                       [CkGoto(c, "customer_by_email", "fetchProducts")
                           EXCEPT !.products = products,
                                  !.validatedItems = validatedItemsOf(ck[c].items, products)]]
    /\ UNCHANGED <<orders, stock, price, view, hookvars, customers, stripeCustomers, sessions>>

\* variant: the provider is asked although the customer document has the link
FetchCustomerIgnoringLink(c, ok) ==
    /\ ck[c].pc = "customer_by_email"
    /\ IF ~ok THEN CkThrow(c, "customerByEmail")
       ELSE ck' = [ck EXCEPT ![c] =
                      [CkGoto(c, "stripe_list", "customerByEmail")
                          EXCEPT !.existingCustomer =
                                     CustomerByEmail(customers, ck[c].user.email)]]
    /\ UNCHANGED <<orders, stock, price, view, hookvars, customers, stripeCustomers, sessions>>

\* getOrCreateStripeCustomer step 1: the customer document read
FetchCustomer(c, ok) ==
    /\ ck[c].pc = "customer_by_email"
    /\ IF ~ok THEN CkThrow(c, "customerByEmail")
       ELSE LET existing == CustomerByEmail(customers, ck[c].user.email)
            IN IF existing # <<>> /\ existing[1].stripeCustomerId # ""
               THEN ck' = [ck EXCEPT ![c] =
                       [CkGoto(c, "create_session", "customerByEmail")
                           EXCEPT !.existingCustomer = existing,
                                  !.stripeCustomerId = existing[1].stripeCustomerId,
                                  !.sanityCustomerId = existing[1]._id]]
               ELSE ck' = [ck EXCEPT ![c] =
                       [CkGoto(c, "stripe_list", "customerByEmail")
                           EXCEPT !.existingCustomer = existing]]
    /\ UNCHANGED <<orders, stock, price, view, hookvars, customers, stripeCustomers, sessions>>

\* getOrCreateStripeCustomer step 2: stripe.customers.list
ListStripeCustomers(c, ok) ==
    /\ ck[c].pc = "stripe_list"
    /\ IF ~ok THEN CkThrow(c, "stripeList")
       ELSE LET data == StripeCustomersList(stripeCustomers, ck[c].user.email)
            IN IF data # <<>>
               THEN ck' = [ck EXCEPT ![c] =
                       [CkGoto(c, "sync_sanity", "stripeList")
                           EXCEPT !.stripeCustomerId = data[1].id]]
               ELSE ck' = [ck EXCEPT ![c] = CkGoto(c, "stripe_create", "stripeList")]
    /\ UNCHANGED <<orders, stock, price, view, hookvars, customers, stripeCustomers, sessions>>

\* getOrCreateStripeCustomer step 2: stripe.customers.create
CreateStripeCustomer(c, ok) ==
    /\ ck[c].pc = "stripe_create"
    /\ IF ~ok THEN CkThrow(c, "stripeCreate") /\ UNCHANGED stripeCustomers
       ELSE /\ stripeCustomers' = Append(stripeCustomers,
                   [id |-> NewStripeCustomerId(stripeCustomers),
                    email |-> ck[c].user.email, name |-> ck[c].user.name,
                    clerkUserId |-> ck[c].user.userId])
            /\ ck' = [ck EXCEPT ![c] =
                   [CkGoto(c, "sync_sanity", "stripeCreate")
                       EXCEPT !.stripeCustomerId = NewStripeCustomerId(stripeCustomers)]]
    /\ UNCHANGED <<orders, stock, price, view, hookvars, customers, sessions>>

\* getOrCreateStripeCustomer step 3: patch of the existing customer document
\* or create of a new one
SyncSanityCustomer(c, ok) ==
    /\ ck[c].pc = "sync_sanity"
    /\ IF ck[c].existingCustomer # <<>>
       THEN IF ~ok THEN CkThrow(c, "sanityPatch") /\ UNCHANGED customers
            ELSE /\ customers' = PatchCustomer(customers, ck[c].existingCustomer[1]._id,
                                    ck[c].stripeCustomerId, ck[c].user.userId,
                                    ck[c].user.name)
                 /\ ck' = [ck EXCEPT ![c] =
                        [CkGoto(c, "create_session", "sanityPatch")
                            EXCEPT !.sanityCustomerId = ck[c].existingCustomer[1]._id]]
       ELSE IF ~ok THEN CkThrow(c, "sanityCreate") /\ UNCHANGED customers
            ELSE /\ customers' = Append(customers,
                        [_id |-> NewSanityCustomerId(customers),
                         email |-> ck[c].user.email, name |-> ck[c].user.name,
                         clerkUserId |-> ck[c].user.userId,
                         stripeCustomerId |-> ck[c].stripeCustomerId])
                 /\ ck' = [ck EXCEPT ![c] =
                        [CkGoto(c, "create_session", "sanityCreate")
                            EXCEPT !.sanityCustomerId = NewSanityCustomerId(customers)]]
    /\ UNCHANGED <<orders, stock, price, view, hookvars, stripeCustomers, sessions>>

\* steps 5-8: line items, metadata and stripe.checkout.sessions.create
SessionCreate(c, ok) ==
    /\ ck[c].pc = "create_session"
    /\ IF ~ok THEN CkThrow(c, "sessionCreate") /\ UNCHANGED sessions
       ELSE /\ sessions' = Append(sessions,
                   StripeSession(NewSessionId(sessions), NewPaymentId(sessions),
                       ck[c].validatedItems,
                       MetadataOf(ck[c].user.userId, ck[c].user.email,
                                  ck[c].sanityCustomerId, ck[c].validatedItems)))
            /\ ck' = [ck EXCEPT ![c] =
                   CkReturn(c, SuccessResult(NewSessionId(sessions)), "sessionCreate")]

\* variant: the stock of the validated lines is reserved when the session is made
CreateSessionReserving(c, ok) ==
    /\ SessionCreate(c, ok)
    /\ stock' = IF ok THEN ApplyPatches(stock,
                    [i \in 1..Len(ck[c].validatedItems) |->
                        [id |-> ck[c].validatedItems[i].productId,
                         dec |-> ck[c].validatedItems[i].quantity]])
                ELSE stock
    /\ UNCHANGED <<orders, price, view, hookvars, customers, stripeCustomers>>

CreateSession(c, ok) ==
    /\ SessionCreate(c, ok)
    /\ UNCHANGED <<orders, stock, price, view, hookvars, customers, stripeCustomers>>

\* ----------------------------------------------------- carts and specs
\* a cart item as the client sends it: honest (the catalog's name and price)
\* or with a name and a price of the client's choosing
ForgedItem(p, quantity) ==
    [productId |-> p, name |-> "Fake", price |-> 10, quantity |-> quantity]

Quantities == {1, 2, 5, 12}

ItemPool ==
    {Line(p, q) : p \in Products, q \in Quantities}
        \cup {ForgedItem(p, q) : p \in Products \cup {PX}, q \in Quantities}

ExampleCart == <<Line(P1, 2), Line(P2, 1), Line(P3, 4)>>

ValidateCarts ==
    {<<>>} \cup {<<i>> : i \in ItemPool} \cup {<<i, j>> : i, j \in ItemPool}
        \cup {ExampleCart,
              <<Line(P1, 1), ForgedItem(PX, 1), Line(P4, 1)>>,
              <<Line(P1, 12), Line(P2, 1), ForgedItem(P2, 5)>>}

\* one createCheckoutSession call, every cart
CheckoutStep(c) ==
    \/ \E ok \in BOOLEAN : Authenticate(c, ok)
    \/ \E ok \in BOOLEAN : FetchProducts(c, ok)
    \/ \E ok \in BOOLEAN : FetchCustomer(c, ok)
    \/ \E ok \in BOOLEAN : ListStripeCustomers(c, ok)
    \/ \E ok \in BOOLEAN : CreateStripeCustomer(c, ok)
    \/ \E ok \in BOOLEAN : SyncSanityCustomer(c, ok)
    \/ \E ok \in BOOLEAN : CreateSession(c, ok)

StartOne(user, items) == StartCheckout(1, user, items)

NextValidate ==
    \/ \E user \in Buyers \cup {Anonymous}, items \in ValidateCarts : StartOne(user, items)
    \/ CheckoutStep(1)

SpecValidate == Init /\ [][NextValidate]_vars

\* one createCheckoutSession call with quantities a client can send although
\* the cart page never does: zero and negative
OddQuantities == {-1, 0, 1}

QuantityCarts ==
    {<<Line(p, q)>> : p \in {P1, P2, P4}, q \in OddQuantities}
        \cup {<<Line(P1, 1), Line(P2, q)>> : q \in OddQuantities}

NextQuantity ==
    \/ \E user \in Buyers, items \in QuantityCarts : StartOne(user, items)
    \/ CheckoutStep(1)

SpecQuantity == Init /\ [][NextQuantity]_vars

\* concurrent createCheckoutSession calls
CartPool ==
    {<<>>, <<Line(P2, 3)>>, <<Line(P1, 2)>>, <<ForgedItem(P1, 2)>>, <<Line(P4, 1)>>}

NextCheckout ==
    \/ \E c \in Checkouts, user \in Buyers \cup {Anonymous}, items \in CartPool :
          StartCheckout(c, user, items)
    \/ \E c \in Checkouts : CheckoutStep(c)

SpecCheckout == Init /\ [][NextCheckout]_vars

\* createCheckoutSession calls one after another
CheckoutsQuiet == \A c \in Checkouts : ck[c].pc \in {"idle", "done"}

StartInTurn(c, user, items) == CheckoutsQuiet /\ StartCheckout(c, user, items)

NextCheckoutSeq ==
    \/ \E c \in Checkouts, user \in Buyers, items \in CartPool : StartInTurn(c, user, items)
    \/ \E c \in Checkouts : CheckoutStep(c)

SpecCheckoutSeq == Init /\ [][NextCheckoutSeq]_vars

\* the shop: checkouts one after another, the provider delivering the
\* checkout-completed event of any session made, any number of times
ShopCarts == {<<Line(P2, 3)>>, <<Line(P1, 2), Line(P2, 1)>>}

DeliverPaid(d, i) ==
    /\ i \in DOMAIN sessions
    /\ Deliver(d, [body |-> [type |-> CheckoutCompleted, object |-> sessions[i]],
                   header |-> <<Sign([type |-> CheckoutCompleted, object |-> sessions[i]],
                                     webhookSecret)>>])

MaxSessions == MaxCheckouts

NextShop ==
    \/ \E c \in Checkouts, items \in ShopCarts : StartInTurn(c, U1, items)
    \/ \E c \in Checkouts : CheckoutStep(c)
    \/ \E d \in Deliveries, i \in 1..MaxSessions : DeliverPaid(d, i)
    \/ \E d \in Deliveries : POST(d)
    \/ \E d \in Deliveries, ok \in BOOLEAN : FetchExistingOrder(d, ok)
    \/ \E d \in Deliveries, ok \in BOOLEAN : ListLineItems(d, ok)
    \/ \E d \in Deliveries, ok \in BOOLEAN : CreateOrder(d, ok)
    \/ \E d \in Deliveries : \E failAt \in 0..PatchCount(d) : CommitStock(d, failAt)

SpecShop == Init /\ [][NextShop]_vars

\* the shop with the provider delivering one event at a time: a delivery
\* starts when no handler is running
DeliverPaidInTurn(d, i) == Quiet /\ DeliverPaid(d, i)

NextShopSeq ==
    \/ \E c \in Checkouts, items \in ShopCarts : StartInTurn(c, U1, items)
    \/ \E c \in Checkouts : CheckoutStep(c)
    \/ \E d \in Deliveries, i \in 1..MaxSessions : DeliverPaidInTurn(d, i)
    \/ \E d \in Deliveries : POST(d)
    \/ \E d \in Deliveries, ok \in BOOLEAN : FetchExistingOrder(d, ok)
    \/ \E d \in Deliveries, ok \in BOOLEAN : ListLineItems(d, ok)
    \/ \E d \in Deliveries, ok \in BOOLEAN : CreateOrder(d, ok)
    \/ \E d \in Deliveries : \E failAt \in 0..PatchCount(d) : CommitStock(d, failAt)

SpecShopSeq == Init /\ [][NextShopSeq]_vars

\* ================================================== getCheckoutSession
U3 == [userId |-> "user_3", email |-> "c@x", name |-> "Cy"]

\* every session the provider holds: those made by createCheckoutSession
\* and those of the webhook's events
ProviderSessions == {sessions[i] : i \in DOMAIN sessions} \cup SessionPool

\* ids the success page may be opened with: the provider's and an unknown one
UnknownSessionId == "cs_none"
SessionIds == {s.id : s \in SessionPool} \cup {UnknownSessionId}

\* the mapped data of the success result
SessionDetails(session) ==
    [id            |-> session.id,
     customerEmail |-> session.customer_email,
     amountTotal   |-> session.amount_total,
     lineItems     |-> [i \in DOMAIN session.line_items |->
                           [name     |-> session.line_items[i].name,
                            quantity |-> session.line_items[i].quantity,
                            amount   |-> LineAmount(session.line_items[i])]]]

\* variant: a session without buyer id in its metadata belongs to everyone
OwnsSessionOrUnowned(session, userId) ==
    ~Has(session.metadata, "clerkUserId") \/ session.metadata.clerkUserId = userId

\* session.metadata?.clerkUserId === userId
OwnsSession(session, userId) ==
    Has(session.metadata, "clerkUserId") /\ session.metadata.clerkUserId = userId

NotAuthenticatedResult == [success |-> FALSE, error |-> "Not authenticated", session |-> <<>>]
SessionNotFoundResult == [success |-> FALSE, error |-> "Session not found", session |-> <<>>]
RetrieveFailedResult ==
    [success |-> FALSE, error |-> "Could not retrieve order details", session |-> <<>>]

\* getCheckoutSession(sessionId) called by user; authOk, retrieveOk: auth()
\* and stripe.checkout.sessions.retrieve do not throw (retrieve throws for
\* an id the provider does not hold)
getCheckoutSessionResult(user, sessionId, authOk, retrieveOk) ==
    IF ~authOk THEN RetrieveFailedResult
    ELSE IF user.userId = "" THEN NotAuthenticatedResult
    ELSE IF ~retrieveOk \/ ~\E s \in ProviderSessions : s.id = sessionId
    THEN RetrieveFailedResult
    ELSE LET session == CHOOSE s \in ProviderSessions : s.id = sessionId
         IN IF ~OwnsSession(session, user.userId) THEN SessionNotFoundResult
            ELSE [success |-> TRUE, error |-> "", session |-> <<SessionDetails(session)>>]

\* the success page calls getCheckoutSession
GetCheckoutSession(user, sessionId, authOk, retrieveOk) ==
    /\ view' = [call |-> "getCheckoutSession", user |-> user, sessionId |-> sessionId,
                authOk |-> authOk, retrieveOk |-> retrieveOk,
                result |-> getCheckoutSessionResult(user, sessionId, authOk, retrieveOk)]
    /\ UNCHANGED <<orders, stock, price, hookvars, customers, stripeCustomers, sessions, ck>>

NextSuccessPage ==
    \E user \in {U1, U2, U3, Anonymous}, sessionId \in SessionIds,
       authOk \in BOOLEAN, retrieveOk \in BOOLEAN :
        GetCheckoutSession(user, sessionId, authOk, retrieveOk)

SpecSuccessPage == Init /\ [][NextSuccessPage]_vars

\* ------------------------------------------------------------------
\* stock helpers (lib/constants/stock.ts)
\* ------------------------------------------------------------------
\* a stock argument: a number, or one of the two absent values
Number(n) == [kind |-> "number", value |-> n]

NullStock == [kind |-> "null"]

UndefinedStock == [kind |-> "undefined"]

LOW_STOCK_THRESHOLD == 5

isLowStockBelowThreshold(s) == s > 0 /\ s < LOW_STOCK_THRESHOLD

isLowStock(s) == s > 0 /\ s <= LOW_STOCK_THRESHOLD

isOutOfStock(s) == s <= 0

getStockStatus(s) ==
    IF s = NullStock \/ s = UndefinedStock THEN "unknown"
    ELSE IF s.value <= 0 THEN "out_of_stock"
    ELSE IF s.value <= LOW_STOCK_THRESHOLD THEN "low_stock"
    ELSE "in_stock"

\* the stock values a caller passes: integers around both thresholds, or
\* one of the two absent values
StockNumbers == {Number(n) : n \in -50 .. 60}

StockAbsent == {NullStock, UndefinedStock}

\* one rendering of a stock badge: the status, and for a number the two
\* boolean helpers
GetStockStatus(s) ==
    /\ view' = IF s.kind = "number"
               THEN [call |-> "getStockStatus", stock |-> s,
                     status |-> getStockStatus(s),
                     low |-> isLowStock(s.value),
                     out |-> isOutOfStock(s.value)]
               ELSE [call |-> "getStockStatus", stock |-> s,
                     status |-> getStockStatus(s)]
    /\ UNCHANGED <<orders, stock, price, hookvars, customers,
                   stripeCustomers, sessions, ck>>

NextStockStatus ==
    \/ \E s \in StockNumbers : GetStockStatus(s)
    \/ \E s \in StockAbsent : GetStockStatus(s)

SpecStockStatus == Init /\ [][NextStockStatus]_vars

\* ------------------------------------------------------- catalog edits
\* the price an editor gives the lamp: 1.235 pounds
NewPrices == {1235}
RepricedProducts == {P2}

\* variant: the order lines follow the price of the product they reference
ChangePriceRewritingOrders(p, v) ==
    /\ price[p] # v
    /\ price' = [price EXCEPT ![p] = v]
    /\ orders' = [i \in DOMAIN orders |->
                     [orders[i] EXCEPT !.items =
                         [k \in DOMAIN @ |->
                             IF @[k].product = p
                             THEN [@[k] EXCEPT !.priceAtPurchase = MathRoundTimes100(v)]
                             ELSE @[k]]]]
    /\ UNCHANGED <<stock, hookvars, shopvars>>

\* an editor publishes a product document with another price
ChangePrice(p, v) ==
    /\ price[p] # v
    /\ price' = [price EXCEPT ![p] = v]
    /\ UNCHANGED <<orders, stock, hookvars, shopvars>>

\* the shop with catalog edits: checkouts in turn, deliveries in turn
NextCatalog ==
    \/ \E p \in RepricedProducts, v \in NewPrices : ChangePrice(p, v)
    \/ \E c \in Checkouts, items \in ShopCarts : StartInTurn(c, U1, items)
    \/ \E c \in Checkouts : CheckoutStep(c)
    \/ \E d \in Deliveries, i \in 1..MaxSessions : DeliverPaidInTurn(d, i)
    \/ \E d \in Deliveries : POST(d)
    \/ \E d \in Deliveries, ok \in BOOLEAN : FetchExistingOrder(d, ok)
    \/ \E d \in Deliveries, ok \in BOOLEAN : ListLineItems(d, ok)
    \/ \E d \in Deliveries, ok \in BOOLEAN : CreateOrder(d, ok)
    \/ \E d \in Deliveries : \E failAt \in 0..PatchCount(d) : CommitStock(d, failAt)

SpecCatalog == Init /\ [][NextCatalog]_vars

\* a cart of eleven lines, one hook each
LongCart == [i \in 1..(ListLimit + 1) |-> Line(P3, 1)]

AuditCarts == {<<ForgedItem(P2, 3)>>, LongCart}

\* checkouts with forged and long carts against an edited catalog, then the
\* confirmations one after another, no call of a handler failing
NextAudit ==
    \/ \E p \in RepricedProducts, v \in NewPrices : ChangePrice(p, v)
    \/ \E c \in Checkouts, items \in AuditCarts : StartInTurn(c, U1, items)
    \/ \E c \in Checkouts : CheckoutStep(c)
    \/ \E d \in Deliveries, i \in 1..MaxSessions : DeliverPaidInTurn(d, i)
    \/ \E d \in Deliveries : POST(d)
    \/ \E d \in Deliveries : FetchExistingOrder(d, TRUE)
    \/ \E d \in Deliveries : ListLineItems(d, TRUE)
    \/ \E d \in Deliveries : CreateOrder(d, TRUE)
    \/ \E d \in Deliveries : CommitStock(d, 0)

SpecAudit == Init /\ [][NextAudit]_vars

\* one createCheckoutSession call against a catalog in which the chair is
\* given prices of two and of three decimals (0.004 to 1.99 pounds)
PricePool == {4, 5, 1005, 1230, 1234, 1235, 1236, 1990}
PricingCarts == {<<Line(P1, 2)>>, ExampleCart}

NextPricing ==
    \/ \E v \in PricePool : ChangePrice(P1, v)
    \/ \E items \in PricingCarts : StartOne(U1, items)
    \/ CheckoutStep(1)

SpecPricing == Init /\ [][NextPricing]_vars

\* ------------------------------------------------------ claim vocabulary
RECURSIVE SetSum(_, _)
SetSum(S, f) ==
    IF S = {} THEN 0
    ELSE LET x == CHOOSE y \in S : TRUE IN f[x] + SetSum(S \ {x}, f)

Range(s) == {s[i] : i \in DOMAIN s}

\* the order documents that carry a payment id
OrdersWith(paymentId) == {i \in DOMAIN orders : orders[i].stripePaymentId = paymentId}

\* a request without signature header or whose signature is not the
\* provider's signature of its body
Forged(r) == r.header = <<>> \/ r.header[1] # Sign(r.body, webhookSecret)

Started(d) == pc[d] \notin {"idle", "received"}
Done(d) == pc[d] = "done"
VerifiedCompleted(d) ==
    Started(d) /\ ~Forged(req[d]) /\ req[d].body.type = CheckoutCompleted

\* quantity of product p bought in a session, from the provider's line items
Ordered(session, p) ==
    LET q == [i \in DOMAIN session.line_items |->
                 IF session.line_items[i].productId = p
                 THEN session.line_items[i].quantity ELSE 0]
    IN SetSum(DOMAIN session.line_items, q)

\* sessions whose checkout-completed event was handled to the end
HandledSessions ==
    {s \in SessionPool : \E d \in Deliveries : VerifiedCompleted(d) /\ Done(d) /\ Session(d) = s}

RequiredKeys == {"clerkUserId", "productIds", "quantities"}
HasRequired(s) == \A k \in RequiredKeys : Has(s.metadata, k)

\* C1: when checkout-completed events are delivered one after another and no
\* call fails, each paymentId delivered at least once has exactly one Order,
\* and once no handler is running each product's stock is its initial stock
\* minus the ordered quantity of every session handled, counted once.
C1_Idempotency ==
    /\ \A s \in HandledSessions :
          HasRequired(s) => Cardinality(OrdersWith(s.payment_intent)) = 1
    /\ Quiet =>
          \A p \in Products :
             LET bought == [s \in HandledSessions |->
                               IF HasRequired(s) THEN Ordered(s, p) ELSE 0]
             IN stock[p] = InitStock[p] - SetSum(HandledSessions, bought)

\* two deliveries of the same event: the second is deduplicated, stock 5 -> 3
C1_Witness ==
    /\ Done(1) /\ Done(2)
    /\ req[1] = req[2] /\ VerifiedCompleted(1) /\ Session(1) = SessionA
    /\ outcome[1] = "stock_adjusted" /\ outcome[2] = "deduplicated"
    /\ stock[P1] = 3

\* C2: at most one Order document exists for any paymentId, in every
\* reachable state, deliveries of the same paymentId being handled
\* concurrently included.
C2_AtMostOneOrderPerPayment ==
    \A paymentId \in PaymentIds : Cardinality(OrdersWith(paymentId)) <= 1

\* C3: a request with a missing signature header or a signature that does
\* not verify is answered by POST at once with a client error, having made
\* no order lookup, no line-item fetch, no order create and no stock commit;
\* no order document is ever made from a body the provider did not sign.
C3_SignatureRejection ==
    \A d \in Deliveries :
        Started(d) /\ Forged(req[d]) =>
            /\ Done(d)
            /\ status[d] = 400
            /\ calls[d] = <<>>
            /\ req[d].body \notin Events =>
                  \A i \in DOMAIN orders :
                     orders[i] # OrderDocument(req[d].body.object,
                                               ListLineItemsData(req[d].body.object))

\* the altered body with the unaltered signature was rejected while another
\* delivery was materialized
C3_Witness ==
    \E d, e \in Deliveries :
        /\ Done(d) /\ req[d].body = AlteredBody /\ req[d].header # <<>>
        /\ status[d] = 400
        /\ outcome[e] = "stock_adjusted"

\* C4: a handler in which the idempotency read, the line-item fetch, the
\* order create or the stock commit threw answers with a server error, never
\* with success.
C4_ErrorSignalsFailure ==
    \A d \in Deliveries :
        failedCall[d] # "" => Done(d) /\ status[d] = 500

\* an order exists whose stock commit failed, and its delivery was answered 500
C4_Witness ==
    \E d \in Deliveries :
        /\ failedCall[d] = "commitStock"
        /\ OrdersWith(stripePaymentId(d)) # {}
        /\ status[d] = 500

Rejected(d) == Done(d) /\ Forged(req[d])
Ignored(d) == Done(d) /\ ~Forged(req[d]) /\ req[d].body.type # CheckoutCompleted
Deduplicated(d) == Done(d) /\ outcome[d] = "deduplicated"

\* C5 as stated: deduplicated, rejected and ignored deliveries are all
\* answered with a success status.
C5_Original ==
    \A d \in Deliveries :
        Deduplicated(d) \/ Rejected(d) \/ Ignored(d) => status[d] \in 200..299

\* C5 amended: deduplicated and ignored deliveries are answered with a
\* success status, rejected ones with the client error 400 (never 5xx).
C5_OutputContract ==
    \A d \in Deliveries :
        /\ Deduplicated(d) \/ Ignored(d) => status[d] = 200
        /\ Rejected(d) => status[d] = 400

\* a redelivery of a materialized event was deduplicated and acknowledged
C5_Witness ==
    \E d, e \in Deliveries :
        /\ Deduplicated(d) /\ status[d] = 200
        /\ outcome[e] = "stock_adjusted" /\ req[e] = req[d]

\* C6: an answered delivery has status 4xx exactly when its signature was
\* missing or failed verification, 5xx exactly when a call of the
\* materialization or stock adjustment threw, and a success status otherwise.
C6_StatusClasses ==
    \A d \in Deliveries :
        Done(d) =>
            /\ status[d] \in 400..499 <=> Forged(req[d])
            /\ status[d] \in 500..599 <=> failedCall[d] # ""
            /\ status[d] \in 200..299 <=> ~Forged(req[d]) /\ failedCall[d] = ""

\* a delivery without signature header answered 4xx next to one answered 5xx
C6_Witness ==
    \E d, e \in Deliveries :
        /\ Done(d) /\ req[d].header = <<>> /\ status[d] = 400
        /\ Done(e) /\ failedCall[e] = "createOrder" /\ status[e] = 500

\* C7: a verified event of a kind other than checkout.session.completed is
\* answered with success at once and makes no store or provider call.
C7_OtherKindsIgnored ==
    \A d \in Deliveries :
        Started(d) /\ ~Forged(req[d]) /\ req[d].body.type # CheckoutCompleted =>
            Done(d) /\ status[d] = 200 /\ calls[d] = <<>>

\* an event of another kind was acknowledged and nothing was stored
C7_Witness ==
    \E d \in Deliveries :
        /\ Done(d) /\ ~Forged(req[d]) /\ req[d].body.type = OtherEventType
        /\ status[d] = 200 /\ orders = <<>> /\ stock = InitStock

CalledCreate(d) == "createOrder" \in Range(calls[d])
CalledCommit(d) == "commitStock" \in Range(calls[d])

\* C8 as stated: for a checkout-completed event lacking any of the five
\* metadata fields no Order is created.
C8_Original ==
    \A d \in Deliveries :
        VerifiedCompleted(d) /\ (\E k \in MetadataKeys : ~Has(Session(d).metadata, k))
            => OrdersWith(stripePaymentId(d)) = {}

\* C8 amended: a checkout-completed event lacking the buyer id, the
\* productIds or the quantities is dropped: no order create, no stock commit,
\* no Order with its paymentId, stock untouched by it.
C8_FailClosedMetadata ==
    \A d \in Deliveries :
        VerifiedCompleted(d) /\ ~HasRequired(Session(d)) =>
            /\ ~CalledCreate(d) /\ ~CalledCommit(d)
            /\ OrdersWith(stripePaymentId(d)) = {}
            /\ Done(d) /\ failedCall[d] = "" => outcome[d] = "malformed"

\* an event without quantities was dropped with nothing stored
C8_Witness ==
    \E d \in Deliveries :
        /\ Done(d) /\ VerifiedCompleted(d)
        /\ Session(d) = SessionMissing("quantities")
        /\ outcome[d] = "malformed" /\ orders = <<>> /\ stock = InitStock

\* C9: in every state each product's stock is its initial stock minus the
\* ordered quantities of the deliveries whose stock transaction committed:
\* a transaction has decremented all of its products or none.
C9_AllOrNothing ==
    \A p \in Products :
        LET adjusted == {d \in Deliveries : outcome[d] = "stock_adjusted"}
            bought == [d \in adjusted |-> Ordered(Session(d), p)]
        IN stock[p] = InitStock[p] - SetSum(adjusted, bought)

\* the transaction of a two-product order was refused at its second patch
\* while another one had committed
C9_Witness ==
    \E d, e \in Deliveries :
        /\ failedCall[d] = "commitStock" /\ Session(d) = SessionB
        /\ outcome[e] = "stock_adjusted"

\* C10: every Order's total is the sum of priceAtPurchase times quantity
\* over its items, in hundredths of a pound.
C10_PriceIntegrity ==
    \A i \in DOMAIN orders :
        LET items == orders[i].items
            line == [k \in DOMAIN items |-> items[k].priceAtPurchase * items[k].quantity]
        IN orders[i].total = SeqSum(line)

\* ------------------------------------------- claim vocabulary (checkout)
CkDone(c) == ck[c].pc = "done"
Created(c) == CkDone(c) /\ ck[c].result.success

\* the call was made and did not throw
Ran(c, call) == call \in Range(ck[c].calls) /\ ck[c].failed # call

\* the provider session a successful call made
SessionOf(c) ==
    sessions[CHOOSE i \in DOMAIN sessions : <<sessions[i].id>> = ck[c].result.url]

RECURSIVE SplitOn(_, _, _, _)
SplitOn(str, sep, i, cur) ==
    IF i > Len(str) THEN <<cur>>
    ELSE IF str[i] = sep THEN <<cur>> \o SplitOn(str, sep, i + 1, <<>>)
    ELSE SplitOn(str, sep, i + 1, Append(cur, str[i]))

\* the messages of a returned validation error
MessagesOf(error) == SplitOn(error, FullStop, 1, <<>>)

\* the class of a cart item against the product snapshots read
Classify(item, products) ==
    IF \A p \in DOMAIN products : products[p]._id # item.productId
    THEN "ProductUnavailable"
    ELSE LET snapshot == products[item.productId]
         IN IF snapshot.stock = 0 THEN "OutOfStock"
            ELSE IF item.quantity > snapshot.stock THEN "InsufficientStock"
            ELSE "valid"

Fails(item, products) == Classify(item, products) # "valid"

KindOf(message) ==
    IF message[Len(message)] = "is no longer available" THEN "ProductUnavailable"
    ELSE IF message[Len(message)] = "is out of stock" THEN "OutOfStock"
    ELSE IF message[1] = "Only" THEN "InsufficientStock"
    ELSE "other"

\* the classes of the failing items of a call's cart, in cart order
FailingClasses(c) ==
    LET classes == [i \in DOMAIN ck[c].items |-> Classify(ck[c].items[i], ck[c].products)]
    IN SelectSeq(classes, LAMBDA k : k # "valid")

ReturnedKinds(c) ==
    [j \in DOMAIN MessagesOf(ck[c].result.error) |->
        KindOf(MessagesOf(ck[c].result.error)[j])]

C12_AllErrorsCollected ==
    \A c \in Checkouts :
        Ran(c, "fetchProducts") =>
            LET failing == SelectSeq(ck[c].items, LAMBDA it : Fails(it, ck[c].products))
                messages == MessagesOf(ck[c].result.error)
            IN failing # <<>> =>
                  /\ CkDone(c) /\ ~ck[c].result.success
                  /\ Len(messages) = Len(failing)
                  /\ \A j \in 1..Len(failing) :
                        messages[j] = ValidationMessage(failing[j], ck[c].products)

\* two failing items around a valid one: two messages
C12_Witness ==
    /\ CkDone(1)
    /\ ck[1].items = <<Line(P1, 12), Line(P2, 1), ForgedItem(P2, 5)>>
    /\ Len(MessagesOf(ck[1].result.error)) = 2

\* a cart with the client-chosen name and price removed
Erase(items) == [i \in DOMAIN items |-> [items[i] EXCEPT !.name = "", !.price = 0]]

\* C13: the provider line items and the metadata of a created session are
\* those computed from the cart with its claimed prices and names removed;
\* two calls of one buyer with the same product ids and quantities, the same
\* product snapshots and the same resolved customer send identical line
\* items and metadata.
C13_PriceTrustBoundary ==
    /\ \A c \in Checkouts :
          Created(c) =>
             LET lines == validatedItemsOf(Erase(ck[c].items), ck[c].products)
             IN /\ SessionOf(c).line_items = LineItemsOf(lines)
                /\ SessionOf(c).metadata =
                      MetadataOf(ck[c].user.userId, ck[c].user.email,
                                 ck[c].sanityCustomerId, lines)
                /\ \A i \in DOMAIN lines :
                      SessionOf(c).line_items[i].unit_amount =
                          MathRoundTimes100(ProductPrice[ck[c].items[i].productId])
    /\ \A c, e \in Checkouts :
          /\ Created(c) /\ Created(e)
          /\ Erase(ck[c].items) = Erase(ck[e].items)
          /\ ck[c].products = ck[e].products
          /\ ck[c].user = ck[e].user
          /\ ck[c].sanityCustomerId = ck[e].sanityCustomerId
          => /\ SessionOf(c).line_items = SessionOf(e).line_items
             /\ SessionOf(c).metadata = SessionOf(e).metadata
             /\ SessionOf(c).amount_total = SessionOf(e).amount_total

\* an honest and a forged cart of the same buyer both led to a session
C13_Witness ==
    \E c, e \in Checkouts :
        /\ Created(c) /\ Created(e)
        /\ ck[c].items = <<Line(P1, 2)>> /\ ck[e].items = <<ForgedItem(P1, 2)>>
        /\ ck[c].user = ck[e].user
        /\ ck[c].sanityCustomerId = ck[e].sanityCustomerId


\* a step of some createCheckoutSession call (its start included)
CheckoutMoves == ck' # ck

\* C14: no step of createCheckoutSession, on any of its paths (success,
\* validation failure, failure of any external call), changes a product's
\* stock or the orders.
C14_CheckoutTouchesNoInventory ==
    [][CheckoutMoves => stock' = stock /\ orders' = orders]_vars

\* a session was created and a later call was refused by the validation,
\* while a confirmation has changed the stock and written an order
C14_Witness ==
    /\ \E c \in Checkouts : Created(c)
    /\ \E c \in Checkouts : CkDone(c) /\ Ran(c, "fetchProducts") /\ ~ck[c].result.success
    /\ orders # <<>>
    /\ stock # InitStock

\* the stock transaction of delivery d commits in this step
StockCommits(d) == pc[d] = "commit_stock" /\ outcome'[d] = "stock_adjusted"

\* C15: a product's stock changes only in a step in which a confirmation
\* handler's stock transaction commits, and that step lowers the stock of
\* each product by the quantity ordered of it in the session (by nothing
\* for a product not ordered).
C15_SingleStockMutator ==
    [][/\ stock' # stock => \E d \in Deliveries : StockCommits(d)
       /\ \A d \in Deliveries :
             StockCommits(d) =>
                \A p \in Products : stock'[p] = stock[p] - Ordered(Session(d), p)]_vars

\* the order of two chairs and a lamp has been confirmed
C15_Witness ==
    /\ \E d \in Deliveries :
          /\ outcome[d] = "stock_adjusted"
          /\ Ordered(Session(d), P1) = 2 /\ Ordered(Session(d), P2) = 1
    /\ stock = [InitStock EXCEPT ![P1] = 3, ![P2] = 3]


\* C16: when any call of createCheckoutSession throws (auth lookup, catalog
\* fetch, customer resolution, provider session creation) the call returns
\* {success: false, error: <message>}: nothing is thrown to the caller, and
\* no failing result carries a redirect url.
C16_StructuredFailure ==
    \A c \in Checkouts :
        /\ ck[c].failed # "" =>
              /\ CkDone(c)
              /\ ~ck[c].result.success
              /\ ck[c].result.error # <<>>
        /\ CkDone(c) =>
              /\ ~ck[c].result.thrown
              /\ ~ck[c].result.success => ck[c].result.url = <<>>

\* one call failed at the provider session creation, another in the
\* customer resolution
C16_Witness ==
    /\ \E c \in Checkouts : CkDone(c) /\ ck[c].failed = "sessionCreate"
    /\ \E c \in Checkouts :
          CkDone(c) /\ ck[c].failed \in {"customerByEmail", "stripeList", "stripeCreate",
                                         "sanityPatch", "sanityCreate"}

\* C17: the productIds and quantities strings written into the metadata of
\* a created session decode, in the confirmation handler, into two lists of
\* the cart's length that hold the cart's (productId, quantity) pairs in
\* the cart's order.
C17_MetadataRoundTrip ==
    \A c \in Checkouts :
        Created(c) =>
            LET md == SessionOf(c).metadata
                ids == productIdsOf(md)
                qs == quantitiesOf(md)
            IN /\ Len(ids) = Len(qs)
               /\ Len(ids) = Len(ck[c].items)
               /\ \A i \in DOMAIN ck[c].items :
                     /\ ids[i] = ck[c].items[i].productId
                     /\ qs[i] = ck[c].items[i].quantity

\* the session of the cart of three products with quantities 2, 1, 4
C17_Witness ==
    \E c \in Checkouts :
        /\ Created(c)
        /\ ck[c].items = ExampleCart
        /\ quantitiesOf(SessionOf(c).metadata) = <<2, 1, 4>>


\* getOrCreateStripeCustomer returned in call c
Resolved(c) == ck[c].sanityCustomerId # ""

ProviderCustomersOf(email) ==
    {i \in DOMAIN stripeCustomers : stripeCustomers[i].email = email}
CustomerDocumentsOf(email) ==
    {i \in DOMAIN customers : customers[i].email = email}

\* C18: when getOrCreateStripeCustomer is called for the same buyer one
\* call after another, whatever call of an earlier attempt failed, the buyer
\* has at most one provider customer and at most one customer document, and
\* all calls that return give the same (stripeCustomerId, sanityCustomerId).
C18_CustomerResolutionIdempotent ==
    /\ \A u \in Buyers :
          /\ Cardinality(ProviderCustomersOf(u.email)) <= 1
          /\ Cardinality(CustomerDocumentsOf(u.email)) <= 1
    /\ \A c, e \in Checkouts :
          Resolved(c) /\ Resolved(e) /\ ck[c].user = ck[e].user =>
             /\ ck[c].stripeCustomerId = ck[e].stripeCustomerId
             /\ ck[c].sanityCustomerId = ck[e].sanityCustomerId

\* a first call made the provider customer and failed before the customer
\* document was written; the next call of the same buyer returned
C18_Witness ==
    \E c, e \in Checkouts :
        /\ ck[c].failed = "sanityCreate"
        /\ Resolved(e)
        /\ ck[e].user = ck[c].user
        /\ ck[e].stripeCustomerId = ck[c].stripeCustomerId
        /\ Cardinality(ProviderCustomersOf(ck[c].user.email)) = 1
        /\ Cardinality(CustomerDocumentsOf(ck[c].user.email)) = 1


\* quantity of product p in the cart of call c
CartQuantity(c, p) ==
    LET q == [i \in DOMAIN ck[c].items |->
                 IF ck[c].items[i].productId = p THEN ck[c].items[i].quantity ELSE 0]
    IN SetSum(DOMAIN ck[c].items, q)

\* call c has validated its cart and has not returned yet
Validating(c) ==
    ck[c].pc \in {"customer_by_email", "stripe_list", "stripe_create",
                  "sync_sanity", "create_session"}

\* the carts of calls c and e ask together for more of a product than there is
Excess(c, e) ==
    \E p \in Products : CartQuantity(c, p) + CartQuantity(e, p) > stock[p]

\* C19: when two createCheckoutSession calls run at once (one has validated
\* its cart and not returned when the other creates its session) and the
\* carts ask together for more of a product than its stock, the call still
\* running does not create a session as well.
C19_AtMostOneUnderRace ==
    [][\A c, e \in Checkouts :
          c # e /\ Created(c) /\ Validating(e) /\ Excess(c, e) => ~Created(e)']_vars

\* C20: every product's stock is at least 0 in every state reached by
\* checkout-session creations and payment confirmations.
C20_StockNonNegative == \A p \in Products : stock[p] >= 0


\* ------------------------------------------- claim vocabulary (retries)
\* delivery d carries the checkout-completed event of payment paymentId
DeliveryOf(d, paymentId) == VerifiedCompleted(d) /\ stripePaymentId(d) = paymentId

\* the deliveries of a payment whose stock transaction committed
AdjustedFor(paymentId) ==
    {d \in Deliveries : DeliveryOf(d, paymentId) /\ outcome[d] = "stock_adjusted"}

\* the deliveries of a payment whose order create succeeded
CreatedBy(paymentId) ==
    {d \in Deliveries : /\ DeliveryOf(d, paymentId)
                        /\ "createOrder" \in Range(calls[d])
                        /\ failedCall[d] # "createOrder"}

\* the initial stock of p less the quantities of the committed transactions
ExpectedStock(p) ==
    LET adjusted == {d \in Deliveries : Started(d) /\ outcome[d] = "stock_adjusted"}
        bought == [d \in adjusted |-> Ordered(Session(d), p)]
    IN InitStock[p] - SetSum(adjusted, bought)

\* C21: when the stock transaction of a delivery fails after its order was
\* created, the order exists, every later delivery of the same event whose
\* idempotency read succeeds is deduplicated, and no delivery of that
\* payment ever applies the decrement: the stock holds no decrement for it.
C21_KnownGap ==
    \A d \in Deliveries :
        failedCall[d] = "commitStock" =>
            LET paymentId == stripePaymentId(d)
            IN /\ Cardinality(OrdersWith(paymentId)) = 1
               /\ AdjustedFor(paymentId) = {}
               /\ \A e \in Deliveries :
                     e > d /\ DeliveryOf(e, paymentId) /\ Done(e) /\ failedCall[e] = ""
                        => outcome[e] = "deduplicated"
               /\ \A p \in Products : stock[p] = ExpectedStock(p)

\* the stock transaction of the first delivery failed and the redelivery
\* was deduplicated: an order of two chairs, and the chairs still in stock
C21_Witness ==
    \E d, e \in Deliveries :
        /\ failedCall[d] = "commitStock"
        /\ e > d /\ DeliveryOf(e, stripePaymentId(d))
        /\ outcome[e] = "deduplicated"
        /\ Len(orders) = 1
        /\ stock = InitStock


\* the calls of the handler that come before the order exists
EarlyCalls == {"fetchOrder", "listLineItems", "createOrder"}

FailedEarly(d) == failedCall[d] \in EarlyCalls

\* C27: a delivery that fails at the idempotency read, the line-item fetch
\* or the order create adds no order and changes no stock (the orders of a
\* payment are those of the deliveries whose create succeeded, the stock
\* holds the committed transactions only), and the first later delivery of
\* the same event with the required metadata whose calls all succeed
\* leaves exactly one order and exactly one decrement for the payment.
C27_RetryAfterEarlyFailure ==
    \A d \in Deliveries :
        FailedEarly(d) =>
            LET paymentId == stripePaymentId(d)
            IN /\ d \notin CreatedBy(paymentId)
               /\ Cardinality(OrdersWith(paymentId)) = Cardinality(CreatedBy(paymentId))
               /\ \A p \in Products : stock[p] = ExpectedStock(p)
               /\ \A e \in Deliveries :
                     /\ e > d /\ DeliveryOf(e, paymentId) /\ HasRequired(Session(e))
                     /\ Done(e) /\ failedCall[e] = ""
                     /\ \A f \in 1..(e - 1) : DeliveryOf(f, paymentId) => FailedEarly(f)
                     => /\ outcome[e] = "stock_adjusted"
                        /\ Cardinality(OrdersWith(paymentId)) = 1
                        /\ AdjustedFor(paymentId) = {e}

\* the order create of the first delivery failed; the redelivery made the
\* order of one chair and three lamps and lowered the stock once
C27_Witness ==
    \E d, e \in Deliveries :
        /\ failedCall[d] = "createOrder"
        /\ e > d /\ DeliveryOf(e, stripePaymentId(d))
        /\ outcome[e] = "stock_adjusted"
        /\ Len(orders) = 1
        /\ stock = [InitStock EXCEPT ![P1] = 4, ![P2] = 1]


\* the priceAtPurchase and quantity of each line of an order, and its total
Snapshot(order) ==
    [lines |-> [k \in DOMAIN order.items |->
                   <<order.items[k].product, order.items[k].quantity,
                     order.items[k].priceAtPurchase>>],
     total |-> order.total]

\* C22: no step (a catalog price change, a step of a later checkout, a step
\* of any later delivery, duplicates included) removes an order or changes
\* the priceAtPurchase or quantity of its lines or its total.
C22_SnapshotImmutable ==
    [][\A i \in DOMAIN orders :
          /\ i \in DOMAIN orders'
          /\ Snapshot(orders'[i]) = Snapshot(orders[i])]_vars

\* the order of three lamps at 2.50 pounds; then the lamp was repriced, a
\* later checkout made a session at the new price and the event of the
\* first session was delivered again
C22_Witness ==
    /\ Len(orders) = 1
    /\ orders[1].total = 750
    /\ price[P2] = 1235
    /\ \E c \in Checkouts :
          Created(c) /\ SessionOf(c).line_items[Len(ck[c].items)].unit_amount = 124
    /\ \E d \in Deliveries : outcome[d] = "deduplicated"


\* C23: no two orders of distinct payments carry the same orderNumber,
\* orders created within the same clock tick included.
C23_OrderNumbersUnique ==
    \A i, j \in DOMAIN orders :
        orders[i].stripePaymentId # orders[j].stripePaymentId
            => orderNumber[i] # orderNumber[j]


\* C24: each provider line item's unit_amount is the snapshot price times
\* 100 rounded half up (the integer u with u <= 100 x price + 0.5 < u + 1;
\* prices are in thousandths of a pound), and for a price of at most two
\* decimals unit_amount / 100 is the price.
C24_Original ==
    \A c \in Checkouts :
        Created(c) =>
            \A i \in DOMAIN SessionOf(c).line_items :
                LET line == SessionOf(c).line_items[i]
                    snapshot == ck[c].products[ck[c].items[i].productId]
                IN /\ 10 * line.unit_amount <= snapshot.price + 5
                   /\ snapshot.price + 5 < 10 * line.unit_amount + 10
                   /\ snapshot.price % 10 = 0 => 10 * line.unit_amount = snapshot.price

\* C24 (amended): each provider line item's unit_amount is the snapshot
\* price times 100 rounded to a nearest integer (at most half a minor unit
\* away; a price with third decimal 5 goes up or down with the
\* double-precision product), and for a price of at most two decimals
\* unit_amount / 100 is the price.
C24_MinorUnits ==
    \A c \in Checkouts :
        Created(c) =>
            \A i \in DOMAIN SessionOf(c).line_items :
                LET line == SessionOf(c).line_items[i]
                    snapshot == ck[c].products[ck[c].items[i].productId]
                IN /\ 10 * line.unit_amount - 5 <= snapshot.price
                   /\ snapshot.price <= 10 * line.unit_amount + 5
                   /\ snapshot.price % 10 = 0 => 10 * line.unit_amount = snapshot.price

\* a chair at 1.005 pounds is sent as 100 pence, next to a lamp at 2.50
\* pounds sent as 250 pence
C24_Witness ==
    \E c \in Checkouts :
        /\ Created(c)
        /\ ck[c].items = ExampleCart
        /\ ck[c].products[P1].price = 1005
        /\ SessionOf(c).line_items[1].unit_amount = 100
        /\ SessionOf(c).line_items[2].unit_amount = 250


\* the store and provider calls of handleCheckoutCompleted, in code order
HandlerCalls == <<"fetchOrder", "listLineItems", "createOrder", "commitStock">>

\* C25: a delivery makes no store or provider call before its signature
\* was verified; its calls are, in this order, the order-existence read, the
\* line-item fetch, the order create and the stock transaction, each made
\* only after the one before it succeeded; the stock transaction is
\* attempted only by a delivery whose order create succeeded, and no
\* payment without an order has had its stock decremented.
C25_StepOrdering ==
    \A d \in Deliveries :
        /\ calls[d] # <<>> => Started(d) /\ ~Forged(req[d])
        /\ calls[d] = SubSeq(HandlerCalls, 1, Len(calls[d]))
        /\ \A k \in 1..(Len(calls[d]) - 1) : failedCall[d] # calls[d][k]
        /\ CalledCommit(d) =>
              /\ d \in CreatedBy(stripePaymentId(d))
              /\ OrdersWith(stripePaymentId(d)) # {}
        /\ Started(d) /\ outcome[d] = "stock_adjusted" =>
              OrdersWith(stripePaymentId(d)) # {}

\* one delivery went through all four calls while a forged one was
\* rejected without any
C25_Witness ==
    \E d, e \in Deliveries :
        /\ calls[d] = HandlerCalls /\ outcome[d] = "stock_adjusted"
        /\ Done(e) /\ Forged(req[e]) /\ calls[e] = <<>>


\* C26: a delivery whose order-existence read finds an order with the
\* event's payment id ends deduplicated; the step that deduplicates it
\* creates no order, changes no order and no stock, and the delivery has
\* made the read and no other call (no line-item fetch) and makes none later.
C26_DeduplicatedNoOp ==
    [][\A d \in Deliveries :
          /\ /\ pc[d] = "idempotency_check"
             /\ OrdersWith(stripePaymentId(d)) # {}
             /\ pc'[d] # "idempotency_check" /\ failedCall'[d] = ""
             => outcome'[d] = "deduplicated"
          /\ outcome'[d] = "deduplicated" /\ outcome[d] # "deduplicated"
             => /\ orders' = orders /\ stock' = stock
                /\ calls'[d] = <<"fetchOrder">> /\ lineItems'[d] = <<>>
                /\ pc'[d] = "done"
          /\ outcome[d] = "deduplicated"
             => calls'[d] = calls[d] /\ pc'[d] = "done"]_vars

\* the event of the two chairs was handled, then delivered again and
\* deduplicated: one order, the stock lowered once
C26_Witness ==
    \E d, e \in Deliveries :
        /\ outcome[d] = "stock_adjusted" /\ outcome[e] = "deduplicated"
        /\ stripePaymentId(d) = stripePaymentId(e)
        /\ calls[e] = <<"fetchOrder">>
        /\ Cardinality(OrdersWith(stripePaymentId(e))) = 1
        /\ \A p \in Products : stock[p] = InitStock[p] - Ordered(Session(d), p)


\* the provider session paid with a payment id
SessionPaid(paymentId) ==
    sessions[CHOOSE i \in DOMAIN sessions : sessions[i].payment_intent = paymentId]

LinkedDocument(email) ==
    LET docs == CustomerDocumentsOf(email)
        first == CHOOSE i \in docs : \A j \in docs : i <= j
    IN IF docs # {} /\ customers[first].stripeCustomerId # ""
       THEN <<customers[first]>> ELSE <<>>

\* call c moves on from position from (it neither stays nor throws)
Passes(c, from) == ck[c].pc = from /\ ck'[c].pc \notin {from, "done"}

\* C29: a provider customer is created only by a call whose customer
\* document lookup returned no document with a provider customer id and
\* whose provider lookup by email returned no customer; a call whose
\* document lookup returns a document with the id takes the two ids from
\* it, makes no provider customer call and writes to neither store.
C29_ResolutionOrder ==
    [][/\ stripeCustomers' # stripeCustomers =>
             \E c \in Checkouts :
                 /\ Passes(c, "stripe_create")
                 /\ SubSeq(ck[c].calls, Len(ck[c].calls) - 1, Len(ck[c].calls))
                       = <<"customerByEmail", "stripeList">>
       /\ \A c \in Checkouts :
             /\ Passes(c, "customer_by_email") /\ ck'[c].pc = "stripe_list"
                => LinkedDocument(ck[c].user.email) = <<>>
             /\ Passes(c, "stripe_list") /\ ck'[c].pc = "stripe_create"
                => ProviderCustomersOf(ck[c].user.email) = {}
             /\ Passes(c, "customer_by_email") /\ LinkedDocument(ck[c].user.email) # <<>>
                => /\ ck'[c].pc = "create_session"
                   /\ ck'[c].stripeCustomerId =
                         LinkedDocument(ck[c].user.email)[1].stripeCustomerId
                   /\ ck'[c].sanityCustomerId = LinkedDocument(ck[c].user.email)[1]._id
                   /\ customers' = customers /\ stripeCustomers' = stripeCustomers
             /\ ck'[c].pc = "create_session" /\ ck'[c].existingCustomer # <<>>
                /\ ck'[c].existingCustomer[1].stripeCustomerId # ""
                => ck'[c].calls = <<"auth", "fetchProducts", "customerByEmail">>]_vars

\* a first call created the provider customer and the customer document; a
\* second call of the same buyer took both ids from the document
C29_Witness ==
    \E c, e \in Checkouts :
        /\ "stripeCreate" \in Range(ck[c].calls) /\ Resolved(c)
        /\ ck[e].calls = <<"auth", "fetchProducts", "customerByEmail">>
        /\ ck[e].pc = "create_session"
        /\ ck[e].stripeCustomerId = ck[c].stripeCustomerId
        /\ ck[e].sanityCustomerId = ck[c].sanityCustomerId
        /\ Len(stripeCustomers) = 1


\* C30: a checkout-completed delivery dropped for missing metadata is
\* answered with the success status and has thrown nothing, so the provider
\* does not redeliver the event; and every verified checkout-completed
\* delivery lacking required metadata whose order lookup succeeds ends so.
C30_MalformedTerminal ==
    \A d \in Deliveries :
        /\ outcome[d] = "malformed" =>
              /\ Done(d)
              /\ status[d] = 200
              /\ failedCall[d] = ""
        /\ /\ VerifiedCompleted(d) /\ Done(d)
           /\ ~HasRequired(Session(d))
           /\ failedCall[d] = ""
           => outcome[d] = "malformed" /\ status[d] = 200

\* the event of a session without productIds was dropped and acknowledged
C30_Witness ==
    \E d \in Deliveries :
        /\ outcome[d] = "malformed"
        /\ ~Has(Session(d).metadata, "productIds")
        /\ status[d] = 200


\* C31: a createCheckoutSession call without authenticated buyer returns the
\* sign-in error, a call of an authenticated buyer with an empty cart returns
\* the empty-cart error, and either call has made the auth lookup only: no
\* catalog read, no customer lookup or creation, no provider session.
C31_EarlyReturns ==
    \A c \in Checkouts :
        CkDone(c) /\ ck[c].failed = "" =>
            /\ ck[c].user.userId = "" =>
                  /\ ~ck[c].result.success
                  /\ ck[c].result.error = <<"Please sign in to checkout">>
                  /\ ck[c].calls = <<"auth">>
            /\ ck[c].user.userId # "" /\ ck[c].items = <<>> =>
                  /\ ~ck[c].result.success
                  /\ ck[c].result.error = <<"Your cart is empty">>
                  /\ ck[c].calls = <<"auth">>

\* one call without buyer and one with an empty cart have returned, and no
\* store or provider object was made
C31_Witness ==
    /\ \E c \in Checkouts :
          CkDone(c) /\ ck[c].user = Anonymous /\ ck[c].items # <<>>
                    /\ ck[c].result = SignInResult
    /\ \E c \in Checkouts :
          CkDone(c) /\ ck[c].user = U1 /\ ck[c].items = <<>>
                    /\ ck[c].result = EmptyCartResult
    /\ customers = InitCustomers /\ stripeCustomers = <<>> /\ sessions = <<>>


\* the provider sessions with the id asked for whose metadata names the caller
OwnedSessions ==
    {s \in ProviderSessions :
        /\ s.id = view.sessionId
        /\ "clerkUserId" \in DOMAIN s.metadata
        /\ s.metadata.clerkUserId = view.user.userId}

\* C32: getCheckoutSession succeeds only for an authenticated caller whose
\* id is the buyer id in the metadata of the session asked for, and then
\* returns that session's details; for a caller without session, a session
\* of another user or one without buyer id in its metadata it returns a
\* failure, and no failure carries session data.
C32_SessionOwnerOnly ==
    view.call = "getCheckoutSession" =>
        /\ view.result.success =>
              /\ view.user.userId # ""
              /\ OwnedSessions # {}
              /\ view.result.session[1].id = view.sessionId
        /\ ~view.result.success => view.result.session = <<>>
        /\ view.user.userId = "" \/ OwnedSessions = {} => ~view.result.success
        /\ /\ view.user.userId # "" /\ OwnedSessions # {}
           /\ view.authOk /\ view.retrieveOk
           => view.result.success

\* the second buyer asked for the first buyer's session and was refused
C32_Witness ==
    /\ view.call = "getCheckoutSession"
    /\ view.user = U2 /\ view.sessionId = SessionA.id
    /\ view.authOk /\ view.retrieveOk
    /\ view.result = SessionNotFoundResult


\* C33: for an integer stock getStockStatus returns out_of_stock exactly
\* when stock <= 0, low_stock exactly when 0 < stock <= LOW_STOCK_THRESHOLD
\* and in_stock exactly when stock > LOW_STOCK_THRESHOLD; it returns unknown
\* exactly for null and undefined; isOutOfStock and isLowStock agree with the
\* status and are never both true.
C33_StockStatusPartition ==
    view.call = "getStockStatus" =>
        /\ view.status \in {"unknown", "out_of_stock", "low_stock", "in_stock"}
        /\ view.status = "unknown" <=> view.stock.kind \in {"null", "undefined"}
        /\ view.stock.kind = "number" =>
              /\ view.status = "out_of_stock" <=> view.stock.value <= 0
              /\ view.status = "low_stock" <=>
                     0 < view.stock.value /\ view.stock.value <= 5
              /\ view.status = "in_stock" <=> view.stock.value > 5
              /\ view.out <=> view.status = "out_of_stock"
              /\ view.low <=> view.status = "low_stock"
              /\ ~(view.out /\ view.low)

\* the threshold itself was rendered: still low stock
C33_Witness ==
    /\ view.call = "getStockStatus"
    /\ view.stock = Number(LOW_STOCK_THRESHOLD)
    /\ view.status = "low_stock" /\ view.low /\ ~view.out


\* the call read the products and its cart has an item that fails validation
ValidationFailed(c) ==
    /\ CkDone(c)
    /\ Len(ck[c].calls) >= 2 /\ ck[c].calls[2] = "fetchProducts"
    /\ ck[c].failed # "fetchProducts"
    /\ \E i \in 1..Len(ck[c].items) :
          \/ ck[c].items[i].productId \notin DOMAIN ck[c].products
          \/ ck[c].products[ck[c].items[i].productId].stock = 0
          \/ ck[c].items[i].quantity > ck[c].products[ck[c].items[i].productId].stock

\* C34: a createCheckoutSession call whose cart fails validation returns a
\* failure right after the product read: it makes no customer lookup and no
\* provider call, and the customer documents, the provider's customers and
\* the provider's sessions are as they were before the call.
C34_ValidationFailureTouchesNoCustomer ==
    ValidationFailed(1) =>
        /\ ~ck[1].result.success
        /\ ck[1].calls = <<"auth", "fetchProducts">>
        /\ ck[1].stripeCustomerId = "" /\ ck[1].sanityCustomerId = ""
        /\ customers = InitCustomers
        /\ stripeCustomers = <<>>
        /\ sessions = <<>>

\* a buyer's cart with one sold-out product and one available product failed
C34_Witness ==
    /\ ValidationFailed(1)
    /\ ck[1].user = U1
    /\ ck[1].items = <<Line(P1, 1), ForgedItem(PX, 1), Line(P4, 1)>>
    /\ ~ck[1].result.success
    /\ customers = InitCustomers /\ stripeCustomers = <<>>


\* C35: no cart item with a quantity below 1 passes validation, and no
\* provider session has a line item with a quantity below 1.
C35_QuantityAtLeastOne ==
    /\ \A c \in Checkouts : \A i \in 1..Len(ck[c].validatedItems) :
          ck[c].validatedItems[i].quantity >= 1
    /\ \A i \in DOMAIN sessions : \A k \in 1..Len(sessions[i].line_items) :
          sessions[i].line_items[k].quantity >= 1


\* C36: whenever a checkout session is created, for every product the sum
\* of the quantities of all cart lines naming it is at most the stock read
\* during validation.
C36_StockCheckedPerProduct ==
    \A c \in Checkouts :
        Created(c) =>
            \A p \in DOMAIN ck[c].products :
                CartQuantity(c, p) <= ck[c].products[p].stock


\* the text of a positive integer
PositiveInteger(str) == AllDigits(str) /\ DigitsValue(str, 0) >= 1

\* the metadata lists of delivery d are aligned and every quantity is a
\* positive integer
ListsWellFormed(d) ==
    LET ids == SplitComma(Session(d).metadata.productIds)
        qs == SplitComma(Session(d).metadata.quantities)
    IN Len(ids) = Len(qs) /\ \A k \in 1..Len(qs) : PositiveInteger(qs[k])

\* C37: the handler creates an order, and commits a stock transaction, only
\* for an event whose productIds and quantities lists have equal length and
\* whose quantities are all positive integers.
C37_MalformedListsYieldNothing ==
    \A d \in Deliveries :
        /\ pc[d] = "commit_stock" => ListsWellFormed(d)
        /\ outcome[d] = "stock_adjusted" => ListsWellFormed(d)


\* C38: every order document has status paid and a payment id that is
\* present (neither null nor empty) and is the payment id of an event a
\* handler made an order for.
C38_PaidWithPaymentId ==
    \A i \in DOMAIN orders :
        /\ orders[i].status = "paid"
        /\ orders[i].stripePaymentId \notin {Null, ""}
        /\ \E d \in Deliveries :
              /\ Session(d).payment_intent = orders[i].stripePaymentId
              /\ \E k \in DOMAIN calls[d] : calls[d][k] = "createOrder"


====
